---- MODULE Spec2Model ----
(***************************************************************************)
(* Host monitoring of aws_wrapper/host_monitoring_plugin.py as a state     *)
(* machine: MonitoringContext, the Monitor loop (Monitor.run) at the       *)
(* granularity of its queue operations, the MonitorService entry points,   *)
(* the part of MonitoringThreadContainer they touch, and                   *)
(* HostMonitoringPlugin.execute / notify_host_list_changed.                *)
(*                                                                         *)
(* Time is the value of perf_counter_ns() read in whole milliseconds: the  *)
(* source compares nanosecond differences with  ms * 1_000_000 , which is  *)
(* the comparison of the millisecond values made here. Time passes while   *)
(* the Monitor sleeps and while a probe runs; every other statement is     *)
(* instantaneous. One Monitor (one monitored host) and one MonitorService  *)
(* are modelled.                                                           *)
(***************************************************************************)
EXTENDS Integers, Sequences, FiniteSets, TLC

\* ------------------------------------------------------------------ bounds
NumCtx == 2
MaxTime == 3200
MaxFailureCount == 3
MaxAbortCalls == 2
MaxTaken == 2

Ctx == 1..NumCtx
None == 0

\* Values of the configuration properties read by HostMonitoringPlugin.execute
\* and by Monitor.__init__
DetectionTimes == {0, 200}
DetectionIntervals == {1000}
DetectionCounts == {0, 1}
DisposalTimes == {300}
ShortDisposalTimes == {100}
\* Durations a probe can be measured to take (besides running into its timeout)
ElapsedChoices == {0, 100}

\* ------------------------------------------------------- program constants
INACTIVE_SLEEP_MS == 100
MIN_HOST_CHECK_TIMEOUT_MS == 3000
DEFAULT_MAX_TIMEOUT_SEC == 60
DEFAULT_TIMEOUT_SEC == 30

HostAliases == {"a", "b"}

\* The MonitoringThreadContainer on its own: services, Monitors, aliases and
\* the alias sets the services pass
NumServices == 2
MaxMonitors == 2
MaxQueued == 1
MaxCalls == 3
Services == 1..NumServices
Monitors == 1..MaxMonitors
Aliases == {"a", "b", "c"}
AliasSets == {{}, {"a", "b"}, {"b", "c"}, {"c"}}

\* The hosts of a topology are numbered 1..MaxHosts (their url); a handler
\* serves at most MaxFailovers calls
MaxHosts == 3
MaxFailovers == 2
Urls == 1..MaxHosts

Max(a, b) == IF a >= b THEN a ELSE b
Min(a, b) == IF a <= b THEN a ELSE b

VARIABLES
  now,                    \* perf_counter_ns(), in ms
  ctx,                    \* the MonitoringContext objects
  abort_calls,            \* history, per context: calls of dialect.abort_connection
                          \* made (MaxAbortCalls: that many or more)
  conn_closed,            \* per context: its connection is closed
  last_update,            \* history: the last call of update_host_status
  first_failed,           \* history, per context: start of the first failed probe
                          \* applied since the last successful one (0: none)
  new_contexts,           \* Monitor._new_contexts
  active_contexts,        \* Monitor._active_contexts
  context_last_used,      \* Monitor._context_last_used_ns
  host_check_timeout_ms,  \* Monitor._host_check_timeout_ms
  monitor_disposal_time_ms,
  monitoring_conn,        \* Monitor._monitoring_conn is open
  is_stopped,             \* Monitor._is_stopped
  pc,                     \* position of Monitor.run
  loc,                    \* locals of Monitor.run
  prev_probe,             \* history: the probe before the current one
  monitor_map,            \* MonitoringThreadContainer._monitor_map: aliases mapped to the Monitor
  available_monitors,     \* MonitoringThreadContainer._available_monitors (number of entries)
  cached_monitor,         \* MonitorService._cached_monitor is the Monitor
  plugin,                 \* HostMonitoringPlugin and the call of execute it has in hand
  container,              \* MonitoringThreadContainer with several Monitors and callers
  handler                 \* ReaderFailoverHandlerImpl and the call it has in hand

vars == <<now, ctx, abort_calls, conn_closed, last_update, first_failed, new_contexts,
          active_contexts, context_last_used, host_check_timeout_ms,
          monitor_disposal_time_ms, monitoring_conn, is_stopped, pc, loc, prev_probe,
          monitor_map, available_monitors, cached_monitor, plugin, container, handler>>

ctxVars == <<ctx, abort_calls, conn_closed, last_update, first_failed>>
monitorVars == <<new_contexts, active_contexts, context_last_used, host_check_timeout_ms,
                 monitor_disposal_time_ms, monitoring_conn, is_stopped, pc, loc, prev_probe>>
registryVars == <<monitor_map, available_monitors, cached_monitor>>
otherVars == <<container, handler>>

\* ------------------------------------------------------- MonitoringContext
\* MonitoringContext.__init__ ; created = FALSE stands for "not constructed yet"
NoContext ==
  [created |-> FALSE,
   failure_detection_time_ms |-> 0,
   failure_detection_interval_ms |-> 0,
   failure_detection_count |-> 0,
   monitor_start_time |-> 0,
   active_monitoring_start_time |-> 0,
   unavailable_host_start_time |-> 0,
   current_failure_count |-> 0,
   is_host_unavailable |-> FALSE,
   is_active |-> FALSE]

MonitoringContext(time_ms, interval_ms, count) ==
  [NoContext EXCEPT !.created = TRUE,
                    !.failure_detection_time_ms = time_ms,
                    !.failure_detection_interval_ms = interval_ms,
                    !.failure_detection_count = count,
                    !.is_active = TRUE]

set_monitor_start_time_ns(c, start_time) ==
  [c EXCEPT !.monitor_start_time = start_time,
            !.active_monitoring_start_time = start_time + c.failure_detection_time_ms]

\* The longest a host may stay unresponsive (lines 261-262)
max_unavailable_host_duration_ms(c) ==
  c.failure_detection_interval_ms * Max(0, c.failure_detection_count)

\* _unavailable_host_start_time_ns after lines 258-259
unavailable_start_after(c, status_check_start_time) ==
  IF c.unavailable_host_start_time <= 0
    THEN status_check_start_time
    ELSE c.unavailable_host_start_time

exceeds_threshold_1(duration, max_duration) == duration >= max_duration

\* The comparison of line 264
exceeds_threshold(duration, max_duration) == duration > max_duration

\* Lines 250-255 of _set_host_availability: the host answered
host_available(c) ==
  [c EXCEPT !.current_failure_count = 0,
            !.unavailable_host_start_time = 0,
            !.is_host_unavailable = FALSE]

\* The state written by _set_host_availability; the call of _abort_connection on
\* line 267 is the Monitor's next step (pc "abort"). current_failure_count is
\* written and logged but never read by a decision: it stops at MaxFailureCount.
set_host_availability(c, is_available, status_check_start_time, status_check_end_time) ==
  IF is_available
    THEN host_available(c)
    ELSE LET since == unavailable_start_after(c, status_check_start_time)
             duration == status_check_end_time - since
         IN [c EXCEPT !.current_failure_count = Min(@ + 1, MaxFailureCount),
                      !.unavailable_host_start_time = since,
                      !.is_host_unavailable =
                          IF exceeds_threshold(duration, max_unavailable_host_duration_ms(c))
                            THEN TRUE ELSE @]

after_grace_1(c, status_check_end_time) ==
  status_check_end_time - c.monitor_start_time >= c.failure_detection_time_ms

\* The test of line 245: the probe ended after the grace period
after_grace(c, status_check_end_time) ==
  status_check_end_time - c.monitor_start_time > c.failure_detection_time_ms

update_host_status(c, status_check_start_time, status_check_end_time, is_available) ==
  IF ~c.is_active
    THEN c
    ELSE IF after_grace(c, status_check_end_time)
           THEN set_host_availability(c, is_available, status_check_start_time,
                                      status_check_end_time)
           ELSE c

\* update_host_status reaches line 267 (self._abort_connection())
reaches_abort(c, status_check_start_time, status_check_end_time, is_available) ==
  /\ c.is_active
  /\ after_grace(c, status_check_end_time)
  /\ ~is_available
  /\ exceeds_threshold(
        status_check_end_time - unavailable_start_after(c, status_check_start_time),
        max_unavailable_host_duration_ms(c))

\* ------------------------------------------------------------------- Init
\* The locals of Monitor.run. A local that the loop assigns again before it reads
\* it (current_time_ns after the intake, status after the dispatch) is written
\* back to its value here at that point.
NoLocals ==
  [current_time |-> 0,             \* current_time_ns (line 331)
   first_added |-> None,           \* first_added_new_context
   cur |-> None,                   \* monitor_context
   start |-> 0,                    \* status_check_start_time_ns
   is_available |-> TRUE,          \* status.is_available
   elapsed |-> 0,                  \* status.elapsed_time_ns
   delay_ms |-> -1,
   reached_abort |-> FALSE,        \* the call of update_host_status is at line 267
   taken |-> [c \in Ctx |-> 0],    \* history: times the intake loop took the context
                                   \* and went on (MaxTaken: that many or more)
   updated |-> [c \in Ctx |-> 0]]  \* history: calls of update_host_status for the
                                   \* probe (MaxTaken: that many or more)

\* No probe made yet. survivors: the contexts the probe's dispatch re-enqueued;
\* min_interval: the smallest failure_detection_interval_ms among them (-1: none)
NoProbe == [start |-> 0, is_available |-> TRUE, min_interval |-> -1, survivors |-> {}]

\* HostMonitoringPlugin.__init__ (lines 56-62), with no call of execute made.
\*   pc                   position of execute: "idle", "calling" (line 116 is
\*                        running), "finally" (line 118), "check" (line 121), "done"
\*   monitoring_host_info self._monitoring_host_info is set
\*   connection, host_info  plugin_service.current_connection / current_host_info
\*                        are not None
\*   enabled, network_bound  failure_detection_enabled; the method of the call is
\*                        one of NETWORK_BOUND_METHODS
\*   monitored            execute has a monitor_context
\*   func_calls           calls of execute_func made
\*   func_raised          execute_func raised
\*   verdict_read         what is_host_unavailable() answered on line 121
\*   outcome              how execute ended: "result" (it returned the result of
\*                        execute_func), "func_error" (the exception of
\*                        execute_func), "unavailable_error" (lines 130-131),
\*                        "null_error" (lines 88, 92)
\*   availability         what set_availability last set for the host's aliases
\*   changes              the argument of the last notify_host_list_changed, as
\*                        the set of its <<key, event>> pairs
\*   stop_host_called     that notification called stop_monitoring_host
NoPlugin ==
  [pc |-> "idle",
   monitoring_host_info |-> FALSE,
   connection |-> TRUE,
   host_info |-> TRUE,
   enabled |-> TRUE,
   network_bound |-> TRUE,
   monitored |-> FALSE,
   func_calls |-> 0,
   func_raised |-> FALSE,
   verdict_read |-> FALSE,
   outcome |-> "none",
   availability |-> "AVAILABLE",
   changes |-> {},
   stop_host_called |-> FALSE]

\* MonitoringThreadContainer (lines 468-476) and the MonitorServices that call
\* it, with several Monitors; a Monitor is a number, 0 stands for None.
\*   instance       _instance is not None
\*   usage_count    _usage_count
\*   lock           the service that holds _lock (0: nobody)
\*   monitor_map    _monitor_map, alias to Monitor
\*   tasks_map      the Monitors that have a Future in _tasks_map
\*   available      _available_monitors
\*   monitors       Monitors constructed so far
\*   submitted      calls of executor.submit(monitor.run) made so far
\*   mstate         per Monitor: "none" (not constructed), "running" (its
\*                  run is submitted and not past line 359), "finally" (it
\*                  has called notify_unused and left the loop), "stopped"
\*                  (line 422: is_stopped is set)
\*   queued         per Monitor: contexts in its queues (MaxQueued: that many or more)
\*   cache          per MonitorService: _cached_monitor and _cached_monitor_aliases
\*   call           per MonitorService: its call of start_monitoring
\*   calls          calls of start_monitoring made so far
\*   svc            per MonitorService: "none" (not constructed, or released),
\*                  "live" (constructed and not released), or the position of
\*                  its construction or of its release_resources
\*   cleared        history: the MonitorServices that were live at a call of
\*                  _release_resources
\*   owner          per Monitor: the MonitorService that constructed it
\*                  (_monitor_service, line 288), 0 for none
\*   orphaned       the Monitors whose _monitor_service has set its
\*                  _thread_container to None (line 622)
\*   uncaught       the Monitors whose run ended with an exception that run
\*                  did not catch
\*   host_info      per Monitor: the host it was constructed for and probes
\*                  (_host_info, line 286), named by its aliases
NoCall ==
  [pc |-> "idle", host_aliases |-> {}, order |-> <<>>, i |-> 0, monitor |-> 0,
   any_alias |-> "", raised |-> FALSE,
   host |-> {}]      \* the host of the call (host_info), named by its aliases

NoContainer ==
  [instance |-> FALSE,
   usage_count |-> 0,
   lock |-> 0,
   monitor_map |-> [a \in Aliases |-> 0],
   tasks_map |-> {},
   available |-> <<>>,
   monitors |-> 0,
   submitted |-> 0,
   mstate |-> [m \in Monitors |-> "none"],
   queued |-> [m \in Monitors |-> 0],
   cache |-> [t \in Services |-> [monitor |-> 0, aliases |-> {}]],
   call |-> [t \in Services |-> NoCall],
   calls |-> 0,
   svc |-> [t \in Services |-> "none"],
   cleared |-> {},
   owner |-> [m \in Monitors |-> 0],
   orphaned |-> {},
   uncaught |-> {},
   host_info |-> [m \in Monitors |-> {}]]

\* ReaderFailoverResult(connection, is_connected, new_host, exception); a
\* connection is named by the url of its host, None stands for no connection and
\* no host, NoException for no exception
ReaderFailoverResult(connection, is_connected, new_host, exception) ==
  [connection |-> connection, is_connected |-> is_connected, new_host |-> new_host,
   exception |-> exception]

\* Line 52
NoException == "None"

failed_reader_failover_result == ReaderFailoverResult(None, FALSE, None, NoException)

\* ReaderFailoverHandlerImpl (lines 54-66) and the call it has in hand
\*   strict         _strict_reader_failover
\*   max_failover_timeout_sec, timeout_sec   the timeouts, in seconds
\*   called         the time (now, in seconds for the handler) of the call
\*   batch_started  the time the batch was submitted
\*   sleeping       the task is in sleep(1) (line 115 or 142)
\*   timeout_event  _timeout_event is set
\*   topology       the list of HostInfo the call was given
\*   op             "failover" or "get_reader_connection"
\*   pc             position of the call
\*   expired        future.result of line 86 raised TimeoutError
\*   timed_out      history: as_completed or future.result raised TimeoutError
\*                  in a call of this handler
\*   rounds         calls of _failover_internal made by the call
\*   hosts          hosts_by_priority of the round
\*   i              index (from 1) of the first host of the batch
\*   running        indices of the attempts of the batch that have not completed
\*   late           indices of the attempts that are still in progress after
\*                  their batch had its result (the executor of line 147 is
\*                  shut down with wait=True when the with block is left)
\*   opened         connections that force_connect returned
\*   started        indices of the hosts attempted so far in the round
\*   batch          history: the last batch that ended, [first, completed, winner]
\*   round_result   what _get_connection_from_host_group returned
\*   refreshed      role of every url in plugin_service.hosts after the refresh
\*   closed         connections closed by line 113
\*   result         what the call returned
\*   calls          calls served so far
NoBatch == [first |-> 0, order |-> <<>>, winner |-> 0]

NoHandler ==
  [strict |-> FALSE,
   max_failover_timeout_sec |-> DEFAULT_MAX_TIMEOUT_SEC,
   timeout_sec |-> DEFAULT_TIMEOUT_SEC,
   called |-> 0,
   batch_started |-> 0,
   sleeping |-> FALSE,
   timeout_event |-> FALSE,
   topology |-> <<>>,
   op |-> "none",
   pc |-> "idle",
   expired |-> FALSE,
   timed_out |-> FALSE,
   rounds |-> 0,
   hosts |-> <<>>,
   i |-> 0,
   running |-> {},
   late |-> {},
   opened |-> {},
   started |-> {},
   batch |-> NoBatch,
   round_result |-> failed_reader_failover_result,
   refreshed |-> [u \in Urls |-> "absent"],
   closed |-> {},
   result |-> failed_reader_failover_result,
   calls |-> 0]

\* No call of update_host_status is on record
NoUpdate ==
  [c |-> None, start |-> 0, end |-> 0, is_available |-> TRUE,
   was_active |-> FALSE, was_unavailable |-> FALSE]

\* The record of update_host_status(start, end, is_available) called on context c
UpdateRecord(c, start, end, is_available) ==
  [c |-> c, start |-> start, end |-> end, is_available |-> is_available,
   was_active |-> ctx[c].is_active, was_unavailable |-> ctx[c].is_host_unavailable]

\* first_failed[c] after that call: a probe counts when the context is active and
\* the probe ended after the grace period
FirstFailedAfter(c, start, end, is_available) ==
  IF ~ctx[c].is_active
       \/ end <= ctx[c].monitor_start_time + ctx[c].failure_detection_time_ms
    THEN first_failed[c]
    ELSE IF is_available THEN 0
    ELSE IF first_failed[c] = 0 THEN start
    ELSE first_failed[c]

\* The state after construction, for a Monitor whose monitor_disposal_time_ms is
\* one of disposal_times
InitMonitor(disposal_times) ==
  /\ now = 1
  /\ ctx = [c \in Ctx |-> NoContext]
  /\ abort_calls = [c \in Ctx |-> 0]
  /\ conn_closed = [c \in Ctx |-> FALSE]
  /\ last_update = NoUpdate
  /\ first_failed = [c \in Ctx |-> 0]
  /\ new_contexts = <<>>
  /\ active_contexts = <<>>
  /\ context_last_used = 0
  /\ host_check_timeout_ms = MIN_HOST_CHECK_TIMEOUT_MS
  /\ monitor_disposal_time_ms \in disposal_times
  /\ monitoring_conn = FALSE
  /\ is_stopped = FALSE
  /\ pc = "none"
  /\ loc = NoLocals
  /\ prev_probe = NoProbe
  /\ monitor_map = {}
  /\ available_monitors = 0
  /\ cached_monitor = FALSE
  /\ container = NoContainer

InitBase == InitMonitor(DisposalTimes)

InitCommon == InitBase /\ handler = NoHandler

Init == InitCommon /\ plugin = NoPlugin

\* ------------------------------------------------------------ Monitor.run
\* Lines 331-332: a new iteration of the loop
LoopTop ==
  /\ UNCHANGED <<plugin, otherVars>>
  /\ pc = "top"
  /\ loc' = [NoLocals EXCEPT !.current_time = now]
  /\ pc' = "new_drain"
  /\ UNCHANGED <<now, ctxVars, new_contexts, active_contexts, context_last_used,
                 host_check_timeout_ms, monitor_disposal_time_ms, monitoring_conn,
                 is_stopped, prev_probe, registryVars>>

\* Line 346: the context's grace period is over
grace_over(current_time, c) == current_time >= c.active_monitoring_start_time

\* Lines 353-355: the marker after a context was put back in new_contexts
first_added_after_1(first_added, c) == None

first_added_after(first_added, c) == IF first_added = None THEN c ELSE first_added

\* The intake loop took the context and goes on
took(l, c) == [l EXCEPT !.taken[c] = Min(@ + 1, MaxTaken)]

\* Lines 335-355: one pass of the while loop over new_contexts
DrainNew ==
  /\ UNCHANGED <<plugin, otherVars>>
  /\ pc = "new_drain"
  /\ IF new_contexts = <<>>
       THEN /\ pc' = "idle_check"
            /\ loc' = NoLocals
            /\ UNCHANGED <<new_contexts, active_contexts>>
       ELSE LET c == Head(new_contexts)
                rest == Tail(new_contexts)
            IN IF loc.first_added = c
                 THEN /\ new_contexts' = Append(rest, c)
                      /\ pc' = "idle_check"
                      /\ loc' = NoLocals
                      /\ UNCHANGED active_contexts
                 ELSE IF ~ctx[c].is_active
                   THEN /\ new_contexts' = rest
                        /\ loc' = took(loc, c)
                        /\ UNCHANGED <<active_contexts, pc>>
                   ELSE IF grace_over(loc.current_time, ctx[c])
                     THEN /\ new_contexts' = rest
                          /\ active_contexts' = Append(active_contexts, c)
                          /\ loc' = took(loc, c)
                          /\ UNCHANGED pc
                     ELSE /\ new_contexts' = Append(rest, c)
                          /\ loc' = [took(loc, c) EXCEPT !.first_added =
                                        first_added_after(@, c)]
                          /\ UNCHANGED <<active_contexts, pc>>
  /\ UNCHANGED <<now, ctxVars, context_last_used, host_check_timeout_ms,
                 monitor_disposal_time_ms, monitoring_conn, is_stopped, prev_probe,
                 registryVars>>

\* Line 358: the Monitor has been idle for monitor_disposal_time_ms
disposal_due(t, last_used, disposal_ms) == t - last_used >= disposal_ms

\* Lines 357-363, and for the break lines 415-422 with
\* MonitorService.notify_unused / MonitoringThreadContainer.release_monitor
IdleCheck ==
  /\ UNCHANGED <<plugin, otherVars>>
  /\ pc = "idle_check"
  /\ IF active_contexts = <<>>
       THEN IF disposal_due(now, context_last_used, monitor_disposal_time_ms)
              THEN /\ monitor_map' = {}
                   /\ monitoring_conn' = FALSE
                   /\ is_stopped' = TRUE
                   /\ pc' = "exited"
                   /\ UNCHANGED loc
              ELSE /\ loc' = [NoLocals EXCEPT !.delay_ms = INACTIVE_SLEEP_MS]
                   /\ pc' = "sleep"
                   /\ UNCHANGED <<monitor_map, monitoring_conn, is_stopped>>
       ELSE /\ pc' = "probe"
            /\ UNCHANGED <<loc, monitor_map, monitoring_conn, is_stopped>>
  /\ UNCHANGED <<now, ctxVars, new_contexts, active_contexts, context_last_used,
                 host_check_timeout_ms, monitor_disposal_time_ms, prev_probe,
                 available_monitors, cached_monitor>>

\* sleep(...) of lines 362 and 411
Sleep ==
  /\ UNCHANGED <<plugin, otherVars>>
  /\ pc = "sleep"
  /\ now + loc.delay_ms <= MaxTime
  /\ now' = now + loc.delay_ms
  /\ pc' = "top"
  /\ UNCHANGED <<ctxVars, new_contexts, active_contexts, context_last_used,
                 host_check_timeout_ms, monitor_disposal_time_ms, monitoring_conn,
                 is_stopped, loc, prev_probe, registryVars>>

\* Lines 365-369 with _check_host_status (424-451): the probe answers is_available
\* after elapsed ms. A probe that finds no open monitoring connection opens one
\* and answers True (445), or fails; a check that runs into its timeout answers
\* False after host_check_timeout_ms.
Probe(is_available, elapsed) ==
  /\ UNCHANGED <<plugin, otherVars>>
  /\ pc = "probe"
  /\ now + elapsed <= MaxTime
  /\ \/ elapsed \in ElapsedChoices
     \/ ~is_available /\ monitoring_conn /\ elapsed = host_check_timeout_ms
  /\ monitoring_conn' = (monitoring_conn \/ is_available)
  /\ context_last_used' = now
  /\ loc' = [loc EXCEPT !.start = now, !.is_available = is_available,
                        !.elapsed = elapsed, !.delay_ms = -1, !.first_added = None]
  /\ now' = now + elapsed
  /\ pc' = "dispatch"
  /\ UNCHANGED <<ctxVars, new_contexts, active_contexts, host_check_timeout_ms,
                 monitor_disposal_time_ms, is_stopped, prev_probe, registryVars>>

\* Lines 372-382: the next context of active_contexts
Dispatch ==
  /\ UNCHANGED <<plugin, otherVars>>
  /\ pc = "dispatch"
  /\ IF active_contexts = <<>>
       THEN /\ pc' = "adapt"
            /\ UNCHANGED <<active_contexts, loc>>
       ELSE LET c == Head(active_contexts)
                rest == Tail(active_contexts)
            IN IF ~ctx[c].is_active
                 THEN /\ active_contexts' = rest
                      /\ UNCHANGED <<loc, pc>>
                 ELSE IF loc.first_added = c
                   THEN /\ active_contexts' = Append(rest, c)
                        /\ pc' = "adapt"
                        /\ UNCHANGED loc
                   ELSE /\ active_contexts' = rest
                        /\ loc' = [loc EXCEPT !.cur = c]
                        /\ pc' = "update"
  /\ UNCHANGED <<now, ctxVars, new_contexts, context_last_used, host_check_timeout_ms,
                 monitor_disposal_time_ms, monitoring_conn, is_stopped, prev_probe,
                 registryVars>>

\* Lines 385-389: update_host_status up to the call of _abort_connection
Update ==
  /\ UNCHANGED <<plugin, otherVars>>
  /\ pc = "update"
  /\ LET c == loc.cur
         end == loc.start + loc.elapsed
     IN /\ ctx' = [ctx EXCEPT ![c] = update_host_status(@, loc.start, end, loc.is_available)]
        /\ loc' = [loc EXCEPT !.reached_abort =
                      reaches_abort(ctx[c], loc.start, end, loc.is_available),
                             !.updated[c] = Min(@ + 1, MaxTaken)]
        /\ last_update' = UpdateRecord(c, loc.start, end, loc.is_available)
        /\ first_failed' = [first_failed EXCEPT ![c] =
                               FirstFailedAfter(c, loc.start, end, loc.is_available)]
  /\ pc' = "abort"
  /\ UNCHANGED <<now, abort_calls, conn_closed, new_contexts, active_contexts,
                 context_last_used, host_check_timeout_ms, monitor_disposal_time_ms,
                 monitoring_conn, is_stopped, prev_probe, registryVars>>

\* Line 231: _abort_connection does nothing for a stopped context
abort_skipped(c) == ~c.is_active

\* Lines 230-237: _abort_connection, when update_host_status reached it.
\* dialect.abort_connection closes the connection or raises; the exception is
\* logged and ignored.
Abort(raises) ==
  /\ UNCHANGED <<plugin, otherVars>>
  /\ pc = "abort"
  /\ LET c == loc.cur
     IN IF loc.reached_abort /\ ~abort_skipped(ctx[c])
          THEN /\ abort_calls' = [abort_calls EXCEPT ![c] = Min(@ + 1, MaxAbortCalls)]
               /\ conn_closed' = [conn_closed EXCEPT ![c] = @ \/ ~raises]
          ELSE /\ ~raises
               /\ UNCHANGED <<abort_calls, conn_closed>>
  /\ loc' = [loc EXCEPT !.reached_abort = FALSE]
  /\ pc' = "requeue"
  /\ UNCHANGED <<now, ctx, last_update, first_failed, new_contexts, active_contexts, context_last_used,
                 host_check_timeout_ms, monitor_disposal_time_ms, monitoring_conn,
                 is_stopped, prev_probe, registryVars>>

dropped_after_update_1(c) == ~c.is_active

\* Line 391: the context is not monitored any further
dropped_after_update(c) == ~c.is_active \/ c.is_host_unavailable

\* Lines 391-400
Requeue ==
  /\ UNCHANGED <<plugin, otherVars>>
  /\ pc = "requeue"
  /\ LET c == loc.cur
     IN IF dropped_after_update(ctx[c])
          THEN /\ loc' = [loc EXCEPT !.cur = None]
               /\ UNCHANGED active_contexts
          ELSE /\ active_contexts' = Append(active_contexts, c)
               /\ loc' = [loc EXCEPT
                            !.cur = None,
                            !.first_added = IF @ = None THEN c ELSE @,
                            !.delay_ms =
                               IF @ = -1 \/ @ > ctx[c].failure_detection_interval_ms
                                 THEN ctx[c].failure_detection_interval_ms ELSE @]
  /\ last_update' = NoUpdate
  /\ pc' = "dispatch"
  /\ UNCHANGED <<now, ctx, abort_calls, conn_closed, first_failed, new_contexts,
                 context_last_used, host_check_timeout_ms,
                 monitor_disposal_time_ms, monitoring_conn, is_stopped, prev_probe,
                 registryVars>>

\* Lines 406-407: the delay until the next probe
next_delay_ms(delay_ms, elapsed) == Max(delay_ms - elapsed, MIN_HOST_CHECK_TIMEOUT_MS)

\* Lines 402-409
Adapt ==
  /\ UNCHANGED <<plugin, otherVars>>
  /\ pc = "adapt"
  /\ prev_probe' = [start |-> loc.start, is_available |-> loc.is_available,
                    min_interval |-> loc.delay_ms,
                    survivors |-> {c \in Ctx : \E i \in DOMAIN active_contexts :
                                                  active_contexts[i] = c}]
  /\ IF loc.delay_ms = -1
       THEN /\ loc' = [NoLocals EXCEPT !.delay_ms = INACTIVE_SLEEP_MS]
            /\ UNCHANGED host_check_timeout_ms
       ELSE /\ loc' = [NoLocals EXCEPT !.delay_ms = next_delay_ms(loc.delay_ms, loc.elapsed)]
            /\ host_check_timeout_ms' = next_delay_ms(loc.delay_ms, loc.elapsed)
  /\ pc' = "sleep"
  /\ UNCHANGED <<now, ctxVars, new_contexts, active_contexts, context_last_used,
                 monitor_disposal_time_ms, monitoring_conn, is_stopped, registryVars>>

MonitorStep ==
  \/ LoopTop
  \/ DrainNew
  \/ IdleCheck
  \/ Sleep
  \/ \E a \in BOOLEAN, e \in ElapsedChoices \cup {host_check_timeout_ms} : Probe(a, e)
  \/ Dispatch
  \/ Update
  \/ \E r \in BOOLEAN : Abort(r)
  \/ Requeue
  \/ Adapt

\* --------------------------------------------------------- MonitorService
\* Lines 488-524 for the one Monitor of the model: the first call constructs it
\* and submits its run; a later call finds it under an alias, or takes it from
\* available_monitors when it has not stopped.
get_or_create_enabled ==
  \/ pc = "none"
  \/ monitor_map # {}
  \/ available_monitors > 0 /\ ~is_stopped

\* Lines 572-603 with Monitor.start_monitoring (308-312)
start_monitoring(c, time_ms, interval_ms, count) ==
  /\ ~ctx[c].created
  /\ \A d \in Ctx : d < c => ctx[d].created
  /\ IF cached_monitor
       THEN UNCHANGED <<pc, monitor_map, available_monitors, cached_monitor>>
       ELSE /\ get_or_create_enabled
            /\ pc' = IF pc = "none" THEN "top" ELSE pc
            /\ available_monitors' =
                 IF pc # "none" /\ monitor_map = {} THEN available_monitors - 1
                                                    ELSE available_monitors
            /\ monitor_map' = HostAliases
            /\ cached_monitor' = TRUE
  /\ ctx' = [ctx EXCEPT ![c] =
               set_monitor_start_time_ns(MonitoringContext(time_ms, interval_ms, count), now)]
  /\ context_last_used' = now
  /\ new_contexts' = Append(new_contexts, c)
  /\ UNCHANGED <<now, abort_calls, conn_closed, last_update, first_failed,
                 active_contexts, host_check_timeout_ms,
                 monitor_disposal_time_ms, monitoring_conn, is_stopped, loc, prev_probe>>

\* Lines 608-611 with Monitor.stop_monitoring (314-320)
stop_monitoring(c) ==
  /\ ctx[c].created
  /\ ctx[c].is_active
  /\ ctx' = [ctx EXCEPT ![c].is_active = FALSE]
  /\ context_last_used' = now
  /\ UNCHANGED <<now, abort_calls, conn_closed, last_update, first_failed,
                 new_contexts, active_contexts,
                 host_check_timeout_ms, monitor_disposal_time_ms, monitoring_conn,
                 is_stopped, pc, loc, prev_probe, registryVars>>

\* Lines 613-619 with Monitor.clear_contexts (322-324) and
\* MonitoringThreadContainer.reset_resource (535-537)
stop_monitoring_host ==
  /\ IF monitor_map \cap HostAliases # {}
       THEN /\ new_contexts' = <<>>
            /\ active_contexts' = <<>>
            /\ monitor_map' = {}
            /\ available_monitors' = available_monitors + 1
       ELSE UNCHANGED <<new_contexts, active_contexts, monitor_map, available_monitors>>
  /\ UNCHANGED <<now, ctxVars, context_last_used, host_check_timeout_ms,
                 monitor_disposal_time_ms, monitoring_conn, is_stopped, pc, loc,
                 prev_probe, cached_monitor>>

\* The MonitorService called directly
StartMonitoring(c, time_ms, interval_ms, count) ==
  start_monitoring(c, time_ms, interval_ms, count) /\ UNCHANGED <<plugin, otherVars>>

StopMonitoring(c) == stop_monitoring(c) /\ UNCHANGED <<plugin, otherVars>>

StopMonitoringHost == stop_monitoring_host /\ UNCHANGED <<plugin, otherVars>>

\* The calls of start_monitoring and stop_monitoring made by the callers
ContextStep ==
  \/ \E c \in Ctx, t \in DetectionTimes, i \in DetectionIntervals, n \in DetectionCounts :
        StartMonitoring(c, t, i, n)
  \/ \E c \in Ctx : StopMonitoring(c)

CallerStep ==
  \/ ContextStep
  \/ StopMonitoringHost

Next ==
  \/ MonitorStep
  \/ CallerStep

Spec == Init /\ [][Next]_vars

\* The Monitor loop when the host does not answer any more: every probe fails.
\* The worker pool runs the loop, so it keeps taking steps while it can.
MonitorStepHostDown ==
  \/ LoopTop
  \/ DrainNew
  \/ IdleCheck
  \/ Sleep
  \/ \E e \in ElapsedChoices \cup {host_check_timeout_ms} : Probe(FALSE, e)
  \/ Dispatch
  \/ Update
  \/ \E r \in BOOLEAN : Abort(r)
  \/ Requeue
  \/ Adapt

NextHostDown ==
  \/ MonitorStepHostDown
  \/ ContextStep

FairSpec == Init /\ [][NextHostDown]_vars /\ WF_vars(MonitorStepHostDown)

\* The Monitor loop and the callers of start_monitoring and stop_monitoring,
\* without stop_monitoring_host
NextCallers ==
  \/ MonitorStep
  \/ ContextStep

SpecCallers == Init /\ [][NextCallers]_vars

\* The same for a Monitor whose monitor_disposal_time_ms is shorter than the
\* failure_detection_time_ms of some contexts
InitDisposal ==
  InitMonitor(ShortDisposalTimes) /\ handler = NoHandler /\ plugin = NoPlugin

SpecDisposal == InitDisposal /\ [][NextCallers]_vars

\* --------------------------------------------------- HostMonitoringPlugin
\* One HostMonitoringPlugin making one call of execute for the context 1, on
\* a host that has the aliases HostAliases and a known dialect, while the
\* Monitor runs and host list notifications arrive.
PluginCtx == {c \in Ctx : \A d \in Ctx : c <= d}

\* The keys of the changes (Dict[str, Set[HostEvent]], line 136) are hosts
ChangedHosts == HostAliases \cup {"other"}
HostEvents == {"WENT_DOWN", "HOST_DELETED", "HOST_CHANGED"}
HostListChanges ==
  {{}} \cup {{<<h, e>>} : h \in ChangedHosts, e \in HostEvents}
       \cup {{<<h, "WENT_DOWN">>, <<h, "HOST_CHANGED">>} : h \in ChangedHosts}

\* key in changes, for a dict: the test is on the keys
in_dict(key, changes) == \E p \in changes : p[1] = key

\* Line 95: the call is not monitored
passes_through(p) == ~p.enabled \/ ~p.network_bound

\* Lines 86-116: execute up to the call of execute_func. The null checks come
\* first (86-92); a call that is not monitored runs execute_func and ends
\* with what it did (94-96); a monitored call starts the monitoring (107-115).
ExecuteBegin ==
  /\ UNCHANGED otherVars
  /\ plugin.pc = "idle"
  /\ IF ~plugin.connection \/ ~plugin.host_info
       THEN /\ plugin' = [plugin EXCEPT !.pc = "done", !.outcome = "null_error"]
            /\ UNCHANGED <<now, ctxVars, monitorVars, registryVars>>
       ELSE IF passes_through(plugin)
         THEN /\ \E raised \in BOOLEAN :
                   plugin' = [plugin EXCEPT
                                !.pc = "done",
                                !.func_calls = @ + 1,
                                !.func_raised = raised,
                                !.outcome = IF raised THEN "func_error" ELSE "result"]
              /\ UNCHANGED <<now, ctxVars, monitorVars, registryVars>>
         ELSE /\ \E c \in PluginCtx, t \in DetectionTimes, i \in DetectionIntervals,
                      n \in DetectionCounts : start_monitoring(c, t, i, n)
              /\ plugin' = [plugin EXCEPT
                              !.pc = "calling",
                              !.monitoring_host_info = TRUE,
                              !.monitored = TRUE]

\* Line 116: execute_func returns or raises
ExecuteFuncEnds(raised) ==
  /\ UNCHANGED otherVars
  /\ plugin.pc = "calling"
  /\ plugin' = [plugin EXCEPT
                  !.pc = "finally",
                  !.func_calls = @ + 1,
                  !.func_raised = raised]
  /\ UNCHANGED <<now, ctxVars, monitorVars, registryVars>>

\* Lines 118-120
ExecuteStop ==
  /\ UNCHANGED otherVars
  /\ plugin.pc = "finally"
  /\ \E c \in PluginCtx : stop_monitoring(c)
  /\ plugin' = [plugin EXCEPT !.pc = "check"]

\* Line 125, for a dialect that is known: the error is raised for a connection
\* that is still open
raises_unavailable(is_closed) == ~is_closed

\* Lines 121-134. The connection that connection.close() is called on ends
\* closed, or stays as it is when close() raised (lines 128-129).
ExecuteCheck ==
  /\ UNCHANGED otherVars
  /\ plugin.pc = "check"
  /\ \E c \in PluginCtx :
       LET verdict == ctx[c].is_host_unavailable
           raises == verdict /\ raises_unavailable(conn_closed[c])
       IN /\ plugin' = [plugin EXCEPT
                          !.pc = "done",
                          !.verdict_read = verdict,
                          !.monitoring_host_info = @ \/ verdict,
                          !.availability = IF verdict THEN "NOT_AVAILABLE" ELSE @,
                          !.outcome = IF raises THEN "unavailable_error"
                                      ELSE IF plugin.func_raised THEN "func_error"
                                      ELSE "result"]
          /\ IF raises
               THEN \E closed \in BOOLEAN :
                      conn_closed' = [conn_closed EXCEPT ![c] = closed]
               ELSE UNCHANGED conn_closed
  /\ UNCHANGED <<now, ctx, abort_calls, last_update, first_failed, monitorVars,
                 registryVars>>

\* Line 137
host_went_away(changes) ==
  in_dict("WENT_DOWN", changes) \/ in_dict("HOST_DELETED", changes)

\* Lines 136-142. _get_monitoring_host_info (144-167) raises when there is no
\* current host, and the notification ends there.
NotifyHostListChanged(changes) ==
  /\ UNCHANGED otherVars
  /\ IF host_went_away(changes)
       THEN IF plugin.monitoring_host_info \/ plugin.host_info
              THEN /\ stop_monitoring_host
                   /\ plugin' = [plugin EXCEPT
                                   !.monitoring_host_info = FALSE,
                                   !.changes = changes,
                                   !.stop_host_called = TRUE]
              ELSE /\ plugin' = [plugin EXCEPT
                                   !.changes = changes,
                                   !.stop_host_called = FALSE]
                   /\ UNCHANGED <<now, ctxVars, monitorVars, registryVars>>
       ELSE /\ plugin' = [plugin EXCEPT
                            !.monitoring_host_info = FALSE,
                            !.changes = changes,
                            !.stop_host_called = FALSE]
            /\ UNCHANGED <<now, ctxVars, monitorVars, registryVars>>

PluginStep ==
  \/ ExecuteBegin
  \/ \E raised \in BOOLEAN : ExecuteFuncEnds(raised)
  \/ ExecuteStop
  \/ ExecuteCheck
  \/ \E changes \in HostListChanges : NotifyHostListChanged(changes)

InitPlugin ==
  /\ InitCommon
  /\ \E conn \in BOOLEAN, host \in BOOLEAN, en \in BOOLEAN, nb \in BOOLEAN :
       plugin = [NoPlugin EXCEPT
                   !.connection = conn,
                   !.host_info = host,
                   !.enabled = en,
                   !.network_bound = nb]

NextPlugin ==
  \/ MonitorStep
  \/ PluginStep

SpecPlugin == InitPlugin /\ [][NextPlugin]_vars

\* ----------------------------------------------- MonitoringThreadContainer
\* Several MonitorServices calling start_monitoring and stop_monitoring_host
\* for alias sets that may overlap, and the Monitors disposing of themselves.
\* ConcurrentDict, AtomicInt and QueueUtils are not part of the source: each of
\* their operations is one atomic step. Time is left out: a Monitor may take
\* the disposal branch of line 358 whenever its queues are empty.

\* The orders in which a frozenset may be iterated
Orders(S) ==
  {o \in [1..Cardinality(S) -> S] :
     \A i, j \in 1..Cardinality(S) : i # j => o[i] # o[j]}

\* Lines 580-581, 489-490: an empty alias set is refused
empty_aliases(S) == S = {}

\* Lines 583-585: the cache of the service does not serve the call
cache_miss(cache, S) == cache.monitor = 0 \/ cache.aliases = {} \/ cache.aliases # S

\* Lines 580-591 and 489-493: start_monitoring up to the first access to the
\* shared maps
start_call(c, t, S, order) ==
  IF empty_aliases(S)
    THEN [c EXCEPT !.call[t] = [NoCall EXCEPT !.pc = "done", !.raised = TRUE]]
    ELSE IF cache_miss(c.cache[t], S)
      THEN [c EXCEPT !.call[t] = [NoCall EXCEPT
                                    !.pc = "scan", !.host_aliases = S, !.order = order,
                                    !.host = S,
                                    !.i = 1, !.any_alias = order[1]]]
      ELSE [c EXCEPT !.call[t] = [NoCall EXCEPT
                                    !.pc = "enqueue", !.monitor = c.cache[t].monitor,
                                    !.host = S]]

ServiceStartMonitoring(t, S, order) ==
  /\ container.call[t].pc = "idle"
  /\ container.calls < MaxCalls
  /\ container' = [start_call(container, t, S, order) EXCEPT !.calls = @ + 1]
  /\ UNCHANGED <<now, ctxVars, monitorVars, registryVars, plugin, handler>>

\* Lines 494-498: one iteration of the search for a mapped alias
GetOrCreateScan(t) ==
  LET call == container.call[t]
      alias == call.order[call.i]
      monitor == container.monitor_map[alias]
  IN /\ call.pc = "scan"
     /\ container' =
          [container EXCEPT !.call[t] =
             [call EXCEPT
                !.any_alias = IF monitor # 0 THEN "" ELSE alias,
                !.monitor = monitor,
                !.i = IF monitor = 0 /\ call.i < Len(call.order) THEN call.i + 1 ELSE 1,
                !.pc = IF monitor # 0 THEN "put"
                       ELSE IF call.i < Len(call.order) THEN "scan" ELSE "compute"]]
     /\ UNCHANGED <<now, ctxVars, monitorVars, registryVars, plugin, handler>>

\* Lines 501-504: an available Monitor that has not stopped is taken
takes_available(c) ==
  c.available # <<>> /\ c.mstate[Head(c.available)] # "stopped"

\* Lines 515-516 with _get_or_create_monitor (500-513): compute_if_absent on
\* any_alias. A Monitor taken from available_monitors is used unless it has
\* stopped; otherwise a Monitor is constructed and its run submitted.
GetOrCreateCompute(t) ==
  LET call == container.call[t]
      present == container.monitor_map[call.any_alias]
      new == container.monitors + 1
      rest == IF container.available = <<>> THEN <<>> ELSE Tail(container.available)
  IN /\ call.pc = "compute"
     /\ IF present # 0
          THEN container' = [container EXCEPT
                               !.call[t] = [call EXCEPT !.pc = "put", !.monitor = present, !.any_alias = ""]]
          ELSE IF takes_available(container)
            THEN container' =
                   [container EXCEPT
                      !.available = rest,
                      !.monitor_map[call.any_alias] = Head(container.available),
                      !.call[t] = [call EXCEPT
                                     !.pc = "put", !.monitor = Head(container.available),
                                     !.any_alias = ""]]
            ELSE /\ new \in Monitors
                 /\ container' =
                      [container EXCEPT
                         !.available = rest,
                         !.tasks_map =
                            (IF container.available = <<>> THEN @
                             ELSE @ \ {Head(container.available)}) \cup {new},
                         !.monitors = new,
                         !.submitted = @ + 1,
                         !.mstate[new] = "running",
                         !.owner[new] = t,
                         !.host_info[new] = call.host,
                         !.monitor_map[call.any_alias] = new,
                         !.call[t] = [call EXCEPT !.pc = "put", !.monitor = new, !.any_alias = ""]]
     /\ UNCHANGED <<now, ctxVars, monitorVars, registryVars, plugin, handler>>

\* Lines 521-524 and 586-587: one put_if_absent; after the last one the Monitor
\* is returned and the service caches it
GetOrCreatePut(t) ==
  LET call == container.call[t]
      alias == call.order[call.i]
      last == call.i = Len(call.order)
  IN /\ call.pc = "put"
     /\ container' =
          [container EXCEPT
             !.monitor_map[alias] = IF @ = 0 THEN call.monitor ELSE @,
             !.cache[t] = IF last THEN [monitor |-> call.monitor,
                                        aliases |-> call.host_aliases]
                          ELSE @,
             !.call[t] = IF last
                           THEN [NoCall EXCEPT !.pc = "enqueue", !.monitor = call.monitor,
                                                !.host = call.host]
                           ELSE [call EXCEPT !.i = @ + 1]]
     /\ UNCHANGED <<now, ctxVars, monitorVars, registryVars, plugin, handler>>

\* Lines 600-603 with Monitor.start_monitoring (308-312): the context is put
\* in the Monitor's new_contexts and returned
ServiceEnqueue(t) ==
  LET call == container.call[t]
  IN /\ call.pc = "enqueue"
     /\ container' =
          [container EXCEPT
             !.queued[call.monitor] = Min(@ + 1, MaxQueued),
             !.call[t] = [call EXCEPT !.pc = "done"]]
     /\ UNCHANGED <<now, ctxVars, monitorVars, registryVars, plugin, handler>>

\* The call of start_monitoring has returned or raised
ServiceReturn(t) ==
  /\ container.call[t].pc = "done"
  /\ container' = [container EXCEPT !.call[t] = NoCall]
  /\ UNCHANGED <<now, ctxVars, monitorVars, registryVars, plugin, handler>>

\* Lines 614-616: the aliases of S that stop_monitoring_host may find mapped first
monitored_aliases_1(S, map) == {a \in Aliases : map[a] # 0}

monitored_aliases(S, map) == {a \in S : map[a] # 0}

\* Lines 535-537: reset_resource
reset_resource(c, m) ==
  [c EXCEPT !.monitor_map = [a \in Aliases |-> IF @[a] = m THEN 0 ELSE @[a]],
            !.available = Append(@, m)]

\* Lines 613-619 with clear_contexts (322-324): what stop_monitoring_host may
\* leave, for the alias its loop finds mapped first
stop_host_results(c, S) ==
  IF monitored_aliases(S, c.monitor_map) = {}
    THEN {c}
    ELSE {reset_resource([c EXCEPT !.queued[c.monitor_map[a]] = 0], c.monitor_map[a]) :
            a \in monitored_aliases(S, c.monitor_map)}

ServiceStopMonitoringHost(S) ==
  /\ container' \in stop_host_results(container, S)
  /\ UNCHANGED <<now, ctxVars, monitorVars, registryVars, plugin, handler>>

\* Lines 314-320 and 374-376, 342-344: the contexts of a Monitor are stopped by
\* their callers and the loop discards them
DiscardContexts(m) ==
  /\ container.mstate[m] = "running"
  /\ container.queued[m] > 0
  /\ container' = [container EXCEPT !.queued[m] = 0]
  /\ UNCHANGED <<now, ctxVars, monitorVars, registryVars, plugin, handler>>

\* Lines 539-541: release_monitor
release_monitor(c, m) ==
  [c EXCEPT !.monitor_map = [a \in Aliases |-> IF @[a] = m THEN 0 ELSE @[a]],
            !.tasks_map = @ \ {m}]

\* Lines 625-626, called at line 359: self._thread_container.release_monitor
\* raises AttributeError when the service has set _thread_container to None;
\* run catches InterruptedError only (lines 412-414)
notify_unused(c, m) ==
  IF m \in c.orphaned
    THEN [c EXCEPT !.uncaught = @ \cup {m}]
    ELSE release_monitor(c, m)

\* Lines 357-360 with notify_unused (625-626): the idle Monitor leaves its loop
MonitorDispose(m) ==
  /\ container.mstate[m] = "running"
  /\ container.queued[m] = 0
  /\ container' = [notify_unused(container, m) EXCEPT !.mstate[m] = "finally"]
  /\ UNCHANGED <<now, ctxVars, monitorVars, registryVars, plugin, handler>>

\* Lines 415-422: the monitoring connection is closed and is_stopped set
MonitorExit(m) ==
  /\ container.mstate[m] = "finally"
  /\ container' = [container EXCEPT !.mstate[m] = "stopped"]
  /\ UNCHANGED <<now, ctxVars, monitorVars, registryVars, plugin, handler>>

InitContainer == InitCommon /\ plugin = NoPlugin

\* One MonitorService calls start_monitoring, for one alias set after another,
\* stop_monitoring_host is called, and the Monitors run and dispose of themselves
OneService == {t \in Services : \A u \in Services : t <= u}

NextContainer ==
  \/ \E t \in OneService, S \in AliasSets : \E order \in Orders(S) :
        ServiceStartMonitoring(t, S, order)
  \/ \E t \in OneService : GetOrCreateScan(t)
  \/ \E t \in OneService : GetOrCreateCompute(t)
  \/ \E t \in OneService : GetOrCreatePut(t)
  \/ \E t \in OneService : ServiceEnqueue(t)
  \/ \E t \in OneService : ServiceReturn(t)
  \/ \E S \in AliasSets : ServiceStopMonitoringHost(S)
  \/ \E m \in Monitors : DiscardContexts(m)
  \/ \E m \in Monitors : MonitorDispose(m)
  \/ \E m \in Monitors : MonitorExit(m)

SpecContainer == InitContainer /\ [][NextContainer]_vars

\* No call of start_monitoring is in progress
Quiet == \A t \in Services : container.call[t].pc = "idle"

\* The same calls made one after the other: stop_monitoring_host and the
\* Monitors' release_monitor run only between two calls of start_monitoring
NextSequential ==
  \/ \E t \in OneService, S \in AliasSets : \E order \in Orders(S) :
        ServiceStartMonitoring(t, S, order)
  \/ \E t \in OneService : GetOrCreateScan(t)
  \/ \E t \in OneService : GetOrCreateCompute(t)
  \/ \E t \in OneService : GetOrCreatePut(t)
  \/ \E t \in OneService : ServiceEnqueue(t)
  \/ \E t \in OneService : ServiceReturn(t)
  \/ \E S \in AliasSets : Quiet /\ ServiceStopMonitoringHost(S)
  \/ \E m \in Monitors : Quiet /\ DiscardContexts(m)
  \/ \E m \in Monitors : Quiet /\ MonitorDispose(m)
  \/ \E m \in Monitors : Quiet /\ MonitorExit(m)

SpecSequential == InitContainer /\ [][NextSequential]_vars

\* Every MonitorService makes one call of start_monitoring, service t for the
\* alias set RaceAliases[t], all at the same time
RaceAliases == [t \in Services |-> IF t = 1 THEN {"a", "b"} ELSE {"b", "c"}]

NextRace ==
  \/ \E t \in Services : \E order \in Orders(RaceAliases[t]) :
        /\ container.cache[t].monitor = 0
        /\ ServiceStartMonitoring(t, RaceAliases[t], order)
  \/ \E t \in Services : GetOrCreateScan(t)
  \/ \E t \in Services : GetOrCreateCompute(t)
  \/ \E t \in Services : GetOrCreatePut(t)
  \/ \E t \in Services : ServiceEnqueue(t)
  \/ \E t \in Services : ServiceReturn(t)

SpecRace == InitContainer /\ [][NextRace]_vars

\* ------------------------------------- the MonitoringThreadContainer singleton
\* MonitorServices are constructed (line 568 calls __new__, lines 479-486) and
\* released (release_resources, lines 621-623, calls release_instance, lines
\* 544-553), each in a thread of its own; every read or write of _instance and
\* every AtomicInt operation is one step.

\* The MonitorServices that are constructed and not released
LiveServices(c) == {t \in Services : c.svc[t] = "live"}

\* Line 480: the test made outside the lock
NewTest(t) ==
  /\ container.svc[t] = "none"
  /\ container' = [container EXCEPT
                     !.svc[t] = IF container.instance THEN "new_incr" ELSE "new_lock"]
  /\ UNCHANGED <<now, ctxVars, monitorVars, registryVars, plugin, handler>>

\* Lines 481-483: the lock is taken, and the instance created if there is none
NewCreate(t) ==
  /\ container.svc[t] = "new_lock"
  /\ container.lock = 0
  /\ container' =
       IF container.instance
         THEN [container EXCEPT !.svc[t] = "new_incr"]
         ELSE [container EXCEPT !.instance = TRUE, !.lock = t, !.svc[t] = "new_set"]
  /\ UNCHANGED <<now, ctxVars, monitorVars, registryVars, plugin, handler>>

\* Line 484: the counter is reset and the lock released
NewSet(t) ==
  /\ container.svc[t] = "new_set"
  /\ container' = [container EXCEPT !.usage_count = 0, !.lock = 0, !.svc[t] = "new_incr"]
  /\ UNCHANGED <<now, ctxVars, monitorVars, registryVars, plugin, handler>>

\* Lines 485-486 and 568: the counter is incremented and the service constructed
NewIncrement(t) ==
  /\ container.svc[t] = "new_incr"
  /\ container' = [container EXCEPT !.usage_count = @ + 1, !.svc[t] = "live"]
  /\ UNCHANGED <<now, ctxVars, monitorVars, registryVars, plugin, handler>>

\* Lines 622 and 545-546: release_instance returns when there is no instance
ReleaseTest(t) ==
  /\ container.svc[t] = "live"
  /\ container' = [container EXCEPT
                     !.svc[t] = IF container.instance THEN "rel_dec" ELSE "none",
                     !.orphaned = @ \cup {m \in Monitors : container.owner[m] = t}]
  /\ UNCHANGED <<now, ctxVars, monitorVars, registryVars, plugin, handler>>

\* Line 548: the counter after decrement_and_get calls for the release
reached_zero(count) == count <= 0

\* Line 548: decrement_and_get
ReleaseDecrement(t) ==
  /\ container.svc[t] = "rel_dec"
  /\ container' = [container EXCEPT
                     !.usage_count = @ - 1,
                     !.svc[t] = IF reached_zero(container.usage_count - 1)
                                  THEN "rel_lock" ELSE "none"]
  /\ UNCHANGED <<now, ctxVars, monitorVars, registryVars, plugin, handler>>

\* Lines 555-562: _release_resources
release_resources(c) ==
  [c EXCEPT !.monitor_map = [a \in Aliases |-> 0],
            !.tasks_map = {},
            !.available = <<>>,
            !.cleared = LiveServices(c)]

\* Lines 549-552: under the lock the maps are cleared and the instance dropped
ReleaseClear(t) ==
  /\ container.svc[t] = "rel_lock"
  /\ container.lock = 0
  /\ container' =
       IF container.instance
         THEN [release_resources(container) EXCEPT
                 !.instance = FALSE, !.lock = t, !.svc[t] = "rel_set"]
         ELSE [container EXCEPT !.svc[t] = "none"]
  /\ UNCHANGED <<now, ctxVars, monitorVars, registryVars, plugin, handler>>

\* Line 553: the counter is reset and the lock released
ReleaseSet(t) ==
  /\ container.svc[t] = "rel_set"
  /\ container' = [container EXCEPT !.usage_count = 0, !.lock = 0, !.svc[t] = "none"]
  /\ UNCHANGED <<now, ctxVars, monitorVars, registryVars, plugin, handler>>

NextInstance ==
  \/ \E t \in Services : NewTest(t)
  \/ \E t \in Services : NewCreate(t)
  \/ \E t \in Services : NewSet(t)
  \/ \E t \in Services : NewIncrement(t)
  \/ \E t \in Services : ReleaseTest(t)
  \/ \E t \in Services : ReleaseDecrement(t)
  \/ \E t \in Services : ReleaseClear(t)
  \/ \E t \in Services : ReleaseSet(t)

SpecInstance == InitContainer /\ [][NextInstance]_vars

\* MonitorServices that are constructed, call start_monitoring for their host
\* and are released between two calls, while the Monitors run and dispose of
\* themselves
LiveStartMonitoring(t, S, order) ==
  /\ container.svc[t] = "live"
  /\ ServiceStartMonitoring(t, S, order)

IdleReleaseTest(t) ==
  /\ container.call[t].pc = "idle"
  /\ ReleaseTest(t)

NextLifecycle ==
  \/ \E t \in Services : NewTest(t)
  \/ \E t \in Services : NewCreate(t)
  \/ \E t \in Services : NewSet(t)
  \/ \E t \in Services : NewIncrement(t)
  \/ \E t \in Services : \E order \in Orders(RaceAliases[t]) :
        LiveStartMonitoring(t, RaceAliases[t], order)
  \/ \E t \in Services : GetOrCreateScan(t)
  \/ \E t \in Services : GetOrCreateCompute(t)
  \/ \E t \in Services : GetOrCreatePut(t)
  \/ \E t \in Services : ServiceEnqueue(t)
  \/ \E t \in Services : ServiceReturn(t)
  \/ \E m \in Monitors : DiscardContexts(m)
  \/ \E m \in Monitors : MonitorDispose(m)
  \/ \E m \in Monitors : MonitorExit(m)
  \/ \E t \in Services : IdleReleaseTest(t)
  \/ \E t \in Services : ReleaseDecrement(t)
  \/ \E t \in Services : ReleaseClear(t)
  \/ \E t \in Services : ReleaseSet(t)

SpecLifecycle == InitContainer /\ [][NextLifecycle]_vars

\* ------------------------------------------------ ReaderFailoverHandlerImpl
\* One handler serving calls of failover and get_reader_connection, one after
\* the other. PluginService is not part of the source: force_connect returns a
\* connection or raises, a network exception or another one, or does not return
\* within timeout_sec; force_refresh_host_list raises or leaves any topology in
\* plugin_service.hosts. The sleeps are left out.

HostInfos ==
  [url : Urls, role : {"WRITER", "READER"}, availability : {"AVAILABLE", "NOT_AVAILABLE"}]

IsWriter(h) == h.role = "WRITER"

\* The topologies of a cluster: lists of hosts with different urls, with at
\* most one writer
Topologies ==
  {t \in UNION {[1..n -> HostInfos] : n \in 0..MaxHosts} :
     /\ \A i, j \in DOMAIN t : i # j => t[i].url # t[j].url
     /\ Cardinality({i \in DOMAIN t : IsWriter(t[i])}) <= 1}

\* The topologies of n hosts, up to the names of the hosts and their order in
\* the list: the hosts are 1..n, listed by url. The order of the list given to
\* failover does not survive the shuffles of lines 197-198 and 221-222
SortedTopologies ==
  {t \in Topologies : \A i \in DOMAIN t : t[i].url = i}

\* random.shuffle: any order of the list
shuffle(list) ==
  {[i \in 1..Len(list) |-> list[o[i]]] : o \in Orders(1..Len(list))}

\* Lines 189-195, 214-219: the readers that are available, and those that are not
IsActiveReader(h) == ~IsWriter(h) /\ h.availability = "AVAILABLE"

IsDownHost(h) == ~IsWriter(h) /\ h.availability # "AVAILABLE"

active_readers_of(hosts) == SelectSeq(hosts, IsActiveReader)

down_hosts_of(hosts) == SelectSeq(hosts, IsDownHost)

\* Lines 189-190: the last writer of the list, <<>> for none
writer_host_of(hosts) ==
  LET writers == SelectSeq(hosts, IsWriter)
  IN IF writers = <<>> THEN <<>> ELSE <<writers[Len(writers)]>>

\* Line 202: the writer found is put in the list
includes_writer_1(readers_only, num_active, num_down) == ~readers_only \/ num_active = 0

includes_writer(readers_only, num_active, num_down) ==
  ~readers_only \/ num_active + num_down = 0

\* Lines 183-206: the lists get_hosts_by_priority may return
get_hosts_by_priority(hosts, readers_only) ==
  LET active_readers == active_readers_of(hosts)
      down_hosts == down_hosts_of(hosts)
      writer == IF includes_writer(readers_only, Len(active_readers), Len(down_hosts))
                  THEN writer_host_of(hosts) ELSE <<>>
  IN {a \o writer \o d : a \in shuffle(active_readers), d \in shuffle(down_hosts)}

\* Lines 209-223: the lists get_reader_hosts_by_priority may return
get_reader_hosts_by_priority(hosts) ==
  {a \o d : a \in shuffle(active_readers_of(hosts)), d \in shuffle(down_hosts_of(hosts))}

\* Lines 164-180: attempt_connection when force_connect returns a connection
\* ("connected"), raises a network exception ("network") or another one ("error")
Outcomes == {"connected", "network", "error"}

attempt_connection_1(host, outcome) ==
  IF outcome = "connected" THEN ReaderFailoverResult(host.url, TRUE, None, NoException)
  ELSE IF outcome = "error" THEN ReaderFailoverResult(None, FALSE, None, "error")
  ELSE ReaderFailoverResult(None, FALSE, None, NoException)

attempt_connection(host, outcome) ==
  IF outcome = "connected" THEN ReaderFailoverResult(host.url, TRUE, host.url, NoException)
  ELSE IF outcome = "error" THEN ReaderFailoverResult(None, FALSE, None, "error")
  ELSE failed_reader_failover_result

\* Lines 155, 139: the result ends the batch and the round
wins_1(result) == TRUE

wins(result) == result.is_connected \/ result.exception # NoException

\* Lines 107-110: the host is a READER of the refreshed topology
is_reader_1(refreshed, url) == url # None /\ refreshed[url] # "absent"

is_reader(refreshed, url) == url # None /\ refreshed[url] = "READER"

\* What plugin_service.hosts may hold after a refresh
RefreshedTopologies ==
  {r \in [Urls -> {"READER", "WRITER", "absent"}] :
     Cardinality({u \in Urls : r[u] = "WRITER"}) <= 1}

handlerFrame == <<now, ctxVars, monitorVars, registryVars, plugin, container>>

\* The call returns: failover returns the sentinel when line 86 timed out
\* (lines 81, 89-92), the result of its task otherwise
returns(h, result) ==
  [h EXCEPT !.pc = "returned",
            !.result = IF h.expired THEN failed_reader_failover_result ELSE result,
            !.running = {}, !.hosts = <<>>, !.i = 0]

\* Lines 76-83: failover is called; the task is submitted unless the topology
\* is empty
Failover ==
  /\ handler.pc = "idle"
  /\ handler.calls < MaxFailovers
  /\ LET h == [handler EXCEPT !.op = "failover", !.calls = @ + 1, !.called = now]
     IN handler' = IF Len(handler.topology) = 0
                     THEN returns(h, failed_reader_failover_result)
                     ELSE [h EXCEPT !.pc = "loop"]
  /\ UNCHANGED handlerFrame

\* Lines 128-134: get_reader_connection is called
GetReaderConnection ==
  /\ handler.pc = "idle"
  /\ handler.calls < MaxFailovers
  /\ LET h == [handler EXCEPT !.op = "get_reader_connection", !.calls = @ + 1,
                              !.called = now]
     IN IF Len(handler.topology) = 0
          THEN handler' = returns(h, failed_reader_failover_result)
          ELSE \E hosts \in get_reader_hosts_by_priority(handler.topology) :
                 handler' = [h EXCEPT !.pc = "batch", !.hosts = hosts, !.i = 1]
  /\ UNCHANGED handlerFrame

\* Lines 86, 89-90: the task did not end within max_failover_timeout_sec
OuterTimeout ==
  /\ handler.op = "failover"
  /\ handler.pc \in {"loop", "batch", "attempts", "round_end"}
  /\ ~handler.expired
  /\ handler' = [handler EXCEPT !.expired = TRUE, !.timeout_event = TRUE,
                                !.timed_out = TRUE]
  /\ UNCHANGED handlerFrame

\* Lines 96-97, 119, 121-126: the test of the loop, and the start of a round
LoopTest ==
  /\ handler.pc = "loop"
  /\ ~handler.sleeping
  /\ IF handler.timeout_event
       THEN handler' = returns(handler, failed_reader_failover_result)
       ELSE \E hosts \in get_hosts_by_priority(handler.topology, handler.strict) :
              handler' = [handler EXCEPT !.pc = "batch", !.rounds = @ + 1,
                                         !.hosts = hosts, !.i = 1, !.started = {},
                                         !.batch = NoBatch]
  /\ UNCHANGED handlerFrame

\* Lines 137-138, 144, 147-150: the next batch of attempts is submitted, or the
\* list is exhausted
BatchStart ==
  /\ handler.pc = "batch"
  /\ handler.late = {}
  /\ ~handler.sleeping
  /\ IF handler.i > Len(handler.hosts)
       THEN handler' = [handler EXCEPT !.pc = "round_end",
                                       !.round_result = failed_reader_failover_result]
       ELSE LET pair == {handler.i} \cup
                          (IF handler.i + 1 <= Len(handler.hosts) THEN {handler.i + 1} ELSE {})
            IN handler' = [handler EXCEPT
                             !.pc = "attempts", !.running = pair,
                             !.batch_started = now,
                             !.started = @ \cup pair,
                             !.batch = [first |-> handler.i, order |-> <<>>, winner |-> 0]]
  /\ UNCHANGED handlerFrame

\* Line 173: the connections open once attempt_connection has its result
opened_after(opened, result) ==
  IF result.is_connected THEN opened \cup {result.connection} ELSE opened

\* Lines 153-156, 159-162 and 139-142: as_completed yields the attempt on
\* hosts[j]; a result that wins ends the batch and the round, otherwise the
\* other attempt is awaited, and the next batch follows the last one
AttemptCompletes(j, outcome) ==
  /\ handler.pc = "attempts"
  /\ j \in handler.running
  /\ LET result == attempt_connection(handler.hosts[j], outcome)
         done == [handler.batch EXCEPT !.order = Append(@, <<j, outcome>>)]
         h == [handler EXCEPT !.opened = opened_after(@, result)]
     IN handler' =
          IF wins(result)
            THEN [h EXCEPT !.pc = "round_end", !.running = {},
                           !.late = handler.running \ {j},
                           !.timeout_event = TRUE,
                           !.batch = [done EXCEPT !.winner = j],
                           !.round_result = result]
            ELSE IF handler.running = {j}
              THEN [h EXCEPT !.pc = "batch", !.running = {},
                             !.timeout_event = TRUE, !.sleeping = TRUE,
                             !.batch = done, !.i = @ + 2]
              ELSE [h EXCEPT !.running = @ \ {j}, !.batch = done]
  /\ UNCHANGED handlerFrame

\* Lines 157-162: as_completed raises TimeoutError
BatchTimeout ==
  /\ handler.pc = "attempts"
  /\ handler.running # {}
  /\ handler' = [handler EXCEPT !.pc = "batch", !.running = {},
                                !.late = handler.running, !.timeout_event = TRUE,
                                !.timed_out = TRUE,
                                !.sleeping = TRUE, !.i = @ + 2]
  /\ UNCHANGED handlerFrame

\* Lines 147, 164-180: an attempt ends after its batch had its result; the
\* result is discarded
LateAttemptCompletes(j, outcome) ==
  /\ j \in handler.late
  /\ handler' = [handler EXCEPT
                   !.late = @ \ {j},
                   !.opened = opened_after(@, attempt_connection(handler.hosts[j], outcome))]
  /\ UNCHANGED handlerFrame

\* Line 104: force_refresh_host_list is called for a connected result in
\* strict-reader mode; it raises, or leaves a topology in plugin_service.hosts
RefreshOutcomes(h) ==
  IF h.op = "failover" /\ h.strict /\ h.round_result.is_connected
    THEN {[raises |-> TRUE, hosts |-> NoHandler.refreshed]}
           \cup {[raises |-> FALSE, hosts |-> r] : r \in RefreshedTopologies}
    ELSE {[raises |-> FALSE, hosts |-> NoHandler.refreshed]}

\* Lines 98-115 (failover) and 134 (get_reader_connection): the round has a
\* result. refresh.raises: force_refresh_host_list raises (lines 116-117)
RoundEnd(refresh) ==
  /\ handler.pc = "round_end"
  /\ handler.late = {}
  /\ LET result == handler.round_result
         refresh_raises == refresh.raises
         refreshed == refresh.hosts
     IN handler' =
          IF handler.op = "get_reader_connection"
            THEN returns(handler, result)
          ELSE IF ~result.is_connected
            THEN [handler EXCEPT !.pc = "loop", !.sleeping = TRUE]
          ELSE IF ~handler.strict
            THEN returns(handler, result)
          ELSE IF refresh_raises
            THEN returns(handler, ReaderFailoverResult(None, FALSE, None, "error"))
          ELSE IF is_reader(refreshed, result.new_host)
            THEN returns([handler EXCEPT !.refreshed = refreshed], result)
            ELSE [handler EXCEPT !.pc = "loop", !.refreshed = refreshed,
                                 !.sleeping = TRUE,
                                 !.closed = @ \cup {result.connection}]
  /\ UNCHANGED handlerFrame

\* Lines 115, 142: sleep(1) is over
sleep_ends(h) == [h EXCEPT !.sleeping = FALSE]

SleepEnds ==
  /\ handler.sleeping
  /\ handler.late = {}
  /\ handler' = sleep_ends(handler)
  /\ UNCHANGED handlerFrame

\* The caller has the result; the handler is ready for the next call
NextCall ==
  /\ handler.pc = "returned"
  /\ handler.calls < MaxFailovers
  /\ handler' = [NoHandler EXCEPT !.strict = handler.strict,
                                  !.max_failover_timeout_sec = handler.max_failover_timeout_sec,
                                  !.timeout_sec = handler.timeout_sec,
                                  !.topology = handler.topology,
                                  !.timeout_event = handler.timeout_event,
                                  !.timed_out = handler.timed_out,
                                  !.calls = handler.calls]
  /\ UNCHANGED handlerFrame

\* A handler in strict-reader mode or not, and the topology of its calls
InitHandler ==
  /\ InitBase
  /\ plugin = NoPlugin
  /\ \E topology \in SortedTopologies, strict \in BOOLEAN :
       handler = [NoHandler EXCEPT !.topology = topology, !.strict = strict]

NextHandler ==
  \/ Failover
  \/ GetReaderConnection
  \/ OuterTimeout
  \/ LoopTest
  \/ BatchStart
  \/ \E j \in Urls, outcome \in Outcomes : AttemptCompletes(j, outcome)
  \/ BatchTimeout
  \/ \E j \in Urls, outcome \in Outcomes : LateAttemptCompletes(j, outcome)
  \/ \E refresh \in RefreshOutcomes(handler) : RoundEnd(refresh)
  \/ SleepEnds
  \/ NextCall

SpecHandler == InitHandler /\ [][NextHandler]_vars

\* The same handler with time, in seconds: time passes while attempts are in
\* progress and in the sleeps; as_completed raises TimeoutError timeout_sec
\* after the batch was submitted and future.result max_failover_timeout_sec
\* after failover was called, no later. force_connect is given _timeout_event
\* and is taken to return or raise at once when it is set.
MaxTimeouts == {1, 2}
BatchTimeouts == {1, 2}

timedFrame == <<ctxVars, monitorVars, registryVars, plugin, container>>

\* Line 86: the time left before future.result raises TimeoutError
deadline_due(h, t) ==
  h.op = "failover" /\ ~h.expired /\ t - h.called >= h.max_failover_timeout_sec

\* Line 153: the time left before as_completed raises TimeoutError
batch_due(h, t) == t - h.batch_started >= h.timeout_sec

InitDeadline ==
  /\ InitBase
  /\ plugin = NoPlugin
  /\ \E topology \in SortedTopologies, strict \in BOOLEAN,
        max \in MaxTimeouts, timeout \in BatchTimeouts :
       handler = [NoHandler EXCEPT !.topology = topology, !.strict = strict,
                                   !.max_failover_timeout_sec = max,
                                   !.timeout_sec = timeout]

\* A second passes while the attempts of the batch are in progress
AttemptsTick ==
  /\ handler.pc = "attempts"
  /\ ~handler.timeout_event
  /\ ~batch_due(handler, now)
  /\ ~deadline_due(handler, now)
  /\ now' = now + 1
  /\ UNCHANGED <<handler, timedFrame>>

\* Lines 115, 142: the second of sleep(1) passes
SleepTick ==
  /\ handler.sleeping
  /\ handler.late = {}
  /\ ~deadline_due(handler, now)
  /\ handler' = sleep_ends(handler)
  /\ now' = now + 1
  /\ UNCHANGED timedFrame

\* Lines 86, 89-90: future.result raises TimeoutError when the time is up
TimedOuterTimeout == deadline_due(handler, now) /\ OuterTimeout

\* Lines 153, 157-158: as_completed raises TimeoutError when the time is up
TimedBatchTimeout == batch_due(handler, now) /\ BatchTimeout

NextDeadline ==
  \/ Failover
  \/ TimedOuterTimeout
  \/ LoopTest
  \/ BatchStart
  \/ \E j \in Urls, outcome \in Outcomes : AttemptCompletes(j, outcome)
  \/ TimedBatchTimeout
  \/ \E j \in Urls, outcome \in Outcomes : LateAttemptCompletes(j, outcome)
  \/ \E refresh \in RefreshOutcomes(handler) : RoundEnd(refresh)
  \/ AttemptsTick
  \/ SleepTick

SpecDeadline == InitDeadline /\ [][NextDeadline]_vars

\* get_hosts_by_priority on its own: it is called with a topology whose hosts
\* come in any order, in strict-reader mode or not (line 125)
InitPriority ==
  /\ InitBase
  /\ plugin = NoPlugin
  /\ \E topology \in Topologies, strict \in BOOLEAN :
       handler = [NoHandler EXCEPT !.topology = topology, !.strict = strict]

GetHostsByPriority ==
  /\ handler.pc = "idle"
  /\ \E hosts \in get_hosts_by_priority(handler.topology, handler.strict) :
       handler' = [handler EXCEPT !.pc = "sorted", !.hosts = hosts]
  /\ UNCHANGED handlerFrame

NextPriority == GetHostsByPriority

SpecPriority == InitPriority /\ [][NextPriority]_vars

\* ------------------------------------------- MonitoringContext on its own
\* One MonitoringContext driven through its public methods, as a caller other
\* than Monitor.run may drive it: any sequence of update_host_status calls with
\* probe times that do not go backwards, and the is_active setter.
UnitCtx == CHOOSE c \in Ctx : \A d \in Ctx : c <= d
UnitIntervals == DetectionIntervals \cup {0}
UnitGaps == {0, 3000}
UnitCounts == DetectionCounts \cup {-1}

UnitInit ==
  /\ now = 1
  /\ \E t \in DetectionTimes, i \in UnitIntervals, n \in UnitCounts :
       ctx = [c \in Ctx |-> IF c = UnitCtx
                              THEN set_monitor_start_time_ns(MonitoringContext(t, i, n), 1)
                              ELSE NoContext]
  /\ abort_calls = [c \in Ctx |-> 0]
  /\ conn_closed = [c \in Ctx |-> FALSE]
  /\ last_update = NoUpdate
  /\ first_failed = [c \in Ctx |-> 0]
  /\ new_contexts = <<>>
  /\ active_contexts = <<>>
  /\ context_last_used = 0
  /\ host_check_timeout_ms = MIN_HOST_CHECK_TIMEOUT_MS
  /\ monitor_disposal_time_ms \in DisposalTimes
  /\ monitoring_conn = FALSE
  /\ is_stopped = FALSE
  /\ pc = "none"
  /\ loc = NoLocals
  /\ prev_probe = NoProbe
  /\ monitor_map = {}
  /\ available_monitors = 0
  /\ cached_monitor = FALSE
  /\ plugin = NoPlugin
  /\ container = NoContainer
  /\ handler = NoHandler

\* update_host_status (lines 239-271) called with a probe that started gap ms
\* after the last one ended and took elapsed ms, _abort_connection included
UnitUpdateHostStatus(gap, elapsed, is_available, raises) ==
  LET c == UnitCtx
      start == now + gap
      end == start + elapsed
  IN /\ end <= MaxTime
     /\ ctx' = [ctx EXCEPT ![c] = update_host_status(@, start, end, is_available)]
     /\ IF reaches_abort(ctx[c], start, end, is_available) /\ ~abort_skipped(ctx[c])
          THEN /\ abort_calls' = [abort_calls EXCEPT ![c] = Min(@ + 1, MaxAbortCalls)]
               /\ conn_closed' = [conn_closed EXCEPT ![c] = @ \/ ~raises]
          ELSE /\ ~raises
               /\ UNCHANGED <<abort_calls, conn_closed>>
     /\ last_update' = UpdateRecord(c, start, end, is_available)
     /\ first_failed' = [first_failed EXCEPT ![c] =
                            FirstFailedAfter(c, start, end, is_available)]
     /\ now' = end
     /\ UNCHANGED <<monitorVars, registryVars, plugin, otherVars>>

\* The is_active setter (lines 219-221), as Monitor.stop_monitoring uses it
UnitSetInactive ==
  /\ UNCHANGED <<plugin, otherVars>>
  /\ ctx[UnitCtx].is_active
  /\ ctx' = [ctx EXCEPT ![UnitCtx].is_active = FALSE]
  /\ UNCHANGED <<now, abort_calls, conn_closed, last_update, first_failed,
                 monitorVars, registryVars>>

NextCtx ==
  \/ \E g \in UnitGaps, e \in ElapsedChoices \cup {MIN_HOST_CHECK_TIMEOUT_MS},
        a \in BOOLEAN, r \in BOOLEAN : UnitUpdateHostStatus(g, e, a, r)
  \/ UnitSetInactive

SpecCtx == UnitInit /\ [][NextCtx]_vars

\* ------------------------- the dispatch of one context, statement by statement
\* The body of the dispatch loop (lines 373-397) for one context in
\* active_contexts, with update_host_status and _abort_connection taken one
\* test and one write at a time, while the caller of the context calls
\* stop_monitoring. Monitor._lock (line 373) is held by the loop only:
\* Monitor.stop_monitoring (lines 314-320) and the is_active setter take no lock.
\* pc is the position of the loop: "none" (the context is in active_contexts),
\* "u_test" (before line 241), "u_write" (before line 248), "a_test" (before
\* line 231), "a_call" (before line 234), "kept" (before line 391), "dropped"
\* (the context has left the queue).
stepFrame == <<new_contexts, active_contexts, context_last_used, host_check_timeout_ms,
               monitor_disposal_time_ms, monitoring_conn, is_stopped, prev_probe,
               registryVars, plugin, otherVars>>

\* Lines 365-376: a probe that started gap ms after the last one and took
\* elapsed ms; the context is dequeued and discarded when it is not active
StepDispatch(gap, elapsed, is_available) ==
  LET c == UnitCtx
      start == now + gap
  IN /\ pc = "none"
     /\ start + elapsed <= MaxTime
     /\ now' = start + elapsed
     /\ loc' = [NoLocals EXCEPT !.cur = c, !.start = start, !.elapsed = elapsed,
                                !.is_available = is_available]
     /\ pc' = IF ctx[c].is_active THEN "u_test" ELSE "dropped"
     /\ UNCHANGED <<ctxVars, stepFrame>>

\* Lines 241-245: the tests of update_host_status
StepUpdateTest ==
  LET c == UnitCtx
  IN /\ pc = "u_test"
     /\ pc' = IF ctx[c].is_active /\ after_grace(ctx[c], loc.start + loc.elapsed)
                THEN "u_write" ELSE "kept"
     /\ UNCHANGED <<now, loc, ctxVars, stepFrame>>

\* Lines 248-265: _set_host_availability up to the call of _abort_connection
StepSetHostAvailability ==
  LET c == UnitCtx
      end == loc.start + loc.elapsed
      after == set_host_availability(ctx[c], loc.is_available, loc.start, end)
      aborts == ~loc.is_available
                  /\ exceeds_threshold(end - after.unavailable_host_start_time,
                                        max_unavailable_host_duration_ms(ctx[c]))
  IN /\ pc = "u_write"
     /\ ctx' = [ctx EXCEPT ![c] = after]
     /\ last_update' = UpdateRecord(c, loc.start, end, loc.is_available)
     /\ first_failed' = [first_failed EXCEPT ![c] =
                            FirstFailedAfter(c, loc.start, end, loc.is_available)]
     /\ pc' = IF aborts THEN "a_test" ELSE "kept"
     /\ UNCHANGED <<now, loc, abort_calls, conn_closed, stepFrame>>

\* Lines 231-232: the test of _abort_connection
StepAbortTest ==
  /\ pc = "a_test"
  /\ pc' = IF abort_skipped(ctx[UnitCtx]) THEN "kept" ELSE "a_call"
  /\ UNCHANGED <<now, loc, ctxVars, stepFrame>>

\* Lines 233-237: dialect.abort_connection closes the connection or raises
StepAbortCall(raises) ==
  LET c == UnitCtx
  IN /\ pc = "a_call"
     /\ abort_calls' = [abort_calls EXCEPT ![c] = Min(@ + 1, MaxAbortCalls)]
     /\ conn_closed' = [conn_closed EXCEPT ![c] = @ \/ ~raises]
     /\ pc' = "kept"
     /\ UNCHANGED <<now, loc, ctx, last_update, first_failed, stepFrame>>

\* Lines 391-397: the context is put back unless it is stopped or unavailable
StepRequeue ==
  /\ pc = "kept"
  /\ pc' = IF dropped_after_update(ctx[UnitCtx]) THEN "dropped" ELSE "none"
  /\ loc' = NoLocals
  /\ UNCHANGED <<now, ctxVars, stepFrame>>

\* Monitor.stop_monitoring (lines 314-320), called by the plugin at line 120
StepStopMonitoring ==
  /\ ctx[UnitCtx].is_active
  /\ ctx' = [ctx EXCEPT ![UnitCtx].is_active = FALSE]
  /\ context_last_used' = now
  /\ UNCHANGED <<now, abort_calls, conn_closed, last_update, first_failed,
                 new_contexts, active_contexts, host_check_timeout_ms,
                 monitor_disposal_time_ms, monitoring_conn, is_stopped, pc, loc,
                 prev_probe, registryVars, plugin, otherVars>>

NextStep ==
  \/ \E g \in UnitGaps, e \in ElapsedChoices \cup {MIN_HOST_CHECK_TIMEOUT_MS},
        a \in BOOLEAN : StepDispatch(g, e, a)
  \/ StepUpdateTest
  \/ StepSetHostAvailability
  \/ StepAbortTest
  \/ \E r \in BOOLEAN : StepAbortCall(r)
  \/ StepRequeue
  \/ StepStopMonitoring

SpecStep == UnitInit /\ [][NextStep]_vars

\* ------------------------------------------------------------------ claims
InQueue(q, c) == \E i \in DOMAIN q : q[i] = c

\* The end of the context's grace period
grace_end(c) == c.monitor_start_time + c.failure_detection_time_ms

\* What a probe's result can change in a context
verdict_state(c) ==
  <<c.current_failure_count, c.unavailable_host_start_time, c.is_host_unavailable>>

\* The model's clock has reached MaxTime: the sleeping Monitor cannot wake up
ClockStopped == pc = "sleep" /\ now + loc.delay_ms > MaxTime

\* C1: a context that stays active while every probe fails is eventually judged
\* unavailable and its connection aborted, whatever calls other callers make on
\* the same host. Stated for the contexts submitted to the running Monitor, and
\* checked with the other callers making start_monitoring and stop_monitoring
\* calls only.
C1_FailureDetected ==
  \A c \in Ctx :
    (ctx[c].created /\ ctx[c].is_active /\ ~is_stopped
       /\ (InQueue(new_contexts, c) \/ InQueue(active_contexts, c)))
      ~> \/ ~ctx[c].is_active
         \/ ctx[c].is_host_unavailable /\ abort_calls[c] > 0
         \/ ClockStopped

\* C2: a probe that ends at or before the end of a context's grace period
\* changes none of its failure count, unavailable-since time and verdict, and a
\* context enters active_contexts no earlier than its active monitoring start time.
C2_GracePeriod ==
  [][\A c \in Ctx :
       /\ (ctx[c].created /\ verdict_state(ctx'[c]) # verdict_state(ctx[c]))
            => /\ pc = "update"
               /\ loc.cur = c
               /\ loc.start + loc.elapsed > grace_end(ctx[c])
       /\ (~InQueue(active_contexts, c) /\ InQueue(active_contexts', c))
            => now >= ctx[c].active_monitoring_start_time]_vars

\* C2 witness: a failed probe that ended exactly at the end of the grace period
\* was dispatched to an active context and left it untouched.
C2_Witness ==
  /\ pc = "abort"
  /\ ~loc.is_available
  /\ ctx[loc.cur].is_active
  /\ loc.start + loc.elapsed <= grace_end(ctx[loc.cur])
  /\ ctx[loc.cur].current_failure_count = 0

\* C4: dialect.abort_connection is called at most once per context, only by the
\* call of update_host_status that has just changed the verdict from false to
\* true; whether or not it raises, the verdict stays true and the loop goes on.
C4_AbortOnce ==
  [][\A c \in Ctx :
       abort_calls'[c] # abort_calls[c]
         => /\ abort_calls[c] = 0
            /\ abort_calls'[c] = 1
            /\ pc = "abort"
            /\ loc.cur = c
            /\ loc.reached_abort
            /\ last_update.c = c
            /\ ~last_update.was_unavailable
            /\ ctx[c].is_host_unavailable
            /\ ctx'[c].is_host_unavailable
            /\ pc' = "requeue"]_vars

\* C4 witness: abort_connection was called for a context and raised (the
\* connection is still open); the verdict is true and the loop continues.
C4_Witness ==
  \E c \in Ctx :
    /\ abort_calls[c] = 1
    /\ ~conn_closed[c]
    /\ ctx[c].is_host_unavailable
    /\ pc = "requeue"
    /\ loc.cur = c

\* C7: while probes succeed and a context that survived the previous probe is
\* still monitored, a probe starts at most the smallest
\* failure_detection_interval_ms of those survivors after the previous one.
C7_ProbeCadence ==
  (/\ pc = "dispatch"
   /\ prev_probe.min_interval # -1
   /\ prev_probe.is_available
   /\ \E c \in prev_probe.survivors : ctx[c].is_active /\ InQueue(active_contexts, c))
    => loc.start - prev_probe.start <= prev_probe.min_interval

\* The threshold of a context: failure_detection_interval_ms * max(0, failure_detection_count)
Threshold(c) ==
  c.failure_detection_interval_ms
    * (IF c.failure_detection_count > 0 THEN c.failure_detection_count ELSE 0)

\* The last call of update_host_status applied a probe result to its context:
\* the context was active and the probe ended after its grace period
Applied ==
  /\ last_update.c # None
  /\ last_update.was_active
  /\ last_update.end > grace_end(ctx[last_update.c])

\* C3: once is_host_unavailable is true it is never false again, for any
\* sequence of update_host_status calls, a later successful probe included.
C3_StickyVerdict ==
  [][\A c \in Ctx : ctx[c].is_host_unavailable => ctx'[c].is_host_unavailable]_vars

\* C5: after a failed probe applied to a context, its verdict is true exactly
\* when probe end - unavailable_since > threshold, unavailable_since being the
\* start of the first failed probe applied since the last successful one; a
\* successful probe applied to it resets the failure count and unavailable_since.
C5_ThresholdRule ==
  Applied =>
    LET c == last_update.c
    IN IF last_update.is_available
         THEN /\ ctx[c].current_failure_count = 0
              /\ ctx[c].unavailable_host_start_time = 0
         ELSE /\ ctx[c].unavailable_host_start_time = first_failed[c]
              /\ first_failed[c] > 0
              /\ ctx[c].current_failure_count > 0
              /\ ctx[c].is_host_unavailable
                   = (last_update.end - first_failed[c] > Threshold(ctx[c]))

\* C5 witness: a failure, then a success, then a failure that started long
\* enough after the first one to have passed the threshold, had the success not
\* reset unavailable_since; the verdict is false.
C5_Witness ==
  /\ Applied
  /\ ~last_update.is_available
  /\ ~ctx[last_update.c].is_host_unavailable
  /\ Threshold(ctx[last_update.c]) > 0
  /\ last_update.end - (1 + ctx[last_update.c].failure_detection_time_ms)
       > Threshold(ctx[last_update.c]) + 100
  /\ ctx[last_update.c].current_failure_count = 1

\* C6: with failure_detection_count = 0 or failure_detection_interval_ms = 0, a
\* single failed probe that ends after the grace period sets the verdict,
\* whatever its start time and its duration (a duration of 0 included).
C6_ZeroTolerance ==
  (/\ Applied
   /\ ~last_update.is_available
   /\ \/ ctx[last_update.c].failure_detection_count = 0
      \/ ctx[last_update.c].failure_detection_interval_ms = 0)
    => ctx[last_update.c].is_host_unavailable

\* C8: when a monitored call of execute has ended, its context has been
\* stopped, and if the verdict read at the end was unavailable then the host's
\* aliases were set NOT_AVAILABLE and execute raised the host-unavailable
\* error, whatever the state of the connection
C8_UnavailableRaised ==
  (plugin.pc = "done" /\ plugin.monitored) =>
     /\ \A c \in PluginCtx : ~ctx[c].is_active
     /\ plugin.verdict_read =>
          /\ plugin.availability = "NOT_AVAILABLE"
          /\ plugin.outcome = "unavailable_error"

\* C9: a call of execute that is not monitored (the method is not network
\* bound, or failure detection is off) has, when it has ended, called
\* execute_func exactly once and ended with what execute_func did, with no
\* context created and no Monitor or registry state touched, whether or not
\* there is a current connection and a current host
C9_PassThrough ==
  (plugin.pc = "done" /\ passes_through(plugin)) =>
     /\ plugin.func_calls = 1
     /\ plugin.outcome \in {"result", "func_error"}
     /\ ~plugin.monitored
     /\ \A c \in Ctx : ~ctx[c].created
     /\ pc = "none" /\ monitor_map = {} /\ ~cached_monitor

\* C10: after a notification whose changes give WENT_DOWN or HOST_DELETED for
\* an alias of the monitoring host, stop_monitoring_host has been called and
\* the cached monitoring host is unset; after a notification without those
\* events it has not been called
C10_StopOnHostDown ==
  LET host_down == \E p \in plugin.changes :
                      p[1] \in HostAliases /\ p[2] \in {"WENT_DOWN", "HOST_DELETED"}
      no_event == \A p \in plugin.changes : p[2] \notin {"WENT_DOWN", "HOST_DELETED"}
  IN /\ (host_down /\ plugin.host_info) => plugin.stop_host_called
     /\ no_event => ~plugin.stop_host_called

\* C11: when no call of get_or_create_monitor is in progress, an alias set
\* that was passed to it (the one a MonitorService passed last, which its cache
\* keeps) has all its aliases mapped to one and the same Monitor, or none of
\* them mapped
C11_AliasInvariant ==
  (\A t \in Services : container.call[t].pc = "idle") =>
     \A t \in Services : \A a, b \in container.cache[t].aliases :
        container.monitor_map[a] = container.monitor_map[b]

\* C12: when two MonitorServices call start_monitoring at the same time for the
\* same host with the alias sets {a,b} and {b,c}, one Monitor is constructed,
\* one run is submitted to the executor, and both calls return that Monitor
C12_OneMonitor ==
  /\ container.monitors <= 1
  /\ container.submitted <= 1
  /\ \A t, u \in Services :
       (container.call[t].pc = "done" /\ container.call[u].pc = "done")
         => container.call[t].monitor = container.call[u].monitor

\* C13: a Monitor that has left its loop because it was idle has no alias mapped
\* to it from then on: neither while it closes its monitoring connection nor
\* once it is marked stopped
C13_DisposedUnmapped ==
  \A m \in Monitors :
    container.mstate[m] \in {"finally", "stopped"}
      => \A a \in Aliases : container.monitor_map[a] # m

\* No construction or release of a MonitorService is in progress
InstanceQuiet == \A t \in Services : container.svc[t] \in {"none", "live"}

\* C14: whenever no construction or release is in progress the usage counter
\* equals the number of MonitorServices constructed and not released, the
\* instance exists exactly when that number is not zero, and _release_resources
\* never ran while a MonitorService was constructed and not released.
C14_ReferenceCount ==
  /\ InstanceQuiet => container.usage_count = Cardinality(LiveServices(container))
  /\ InstanceQuiet => (container.instance <=> LiveServices(container) # {})
  /\ container.cleared = {}

\* The state of the Registry, of the services' caches and of the Monitors' queues
registry_state(c) ==
  <<c.monitor_map, c.tasks_map, c.available, c.cache, c.queued, c.monitors,
    c.submitted, c.mstate>>

\* C15: in every state, start_monitoring (and get_or_create_monitor) called with
\* an empty alias set raises and leaves the Registry maps, available_monitors,
\* the caches and the Monitors' queues as they are, with no Monitor constructed;
\* stop_monitoring_host called with an empty alias set changes nothing.
C15_EmptyAliasSet ==
  /\ \A t \in Services :
       container.call[t].pc = "idle" =>
         LET after == start_call(container, t, {}, <<>>)
         IN /\ after.call[t].pc = "done"
            /\ after.call[t].raised
            /\ registry_state(after) = registry_state(container)
  /\ stop_host_results(container, {}) = {container}

\* A call with an empty alias set has raised while aliases are mapped, a
\* Monitor is available and a context is queued
C15_Witness ==
  /\ \E t \in Services : container.call[t].pc = "done" /\ container.call[t].raised
  /\ \E a \in Aliases : container.monitor_map[a] # 0
  /\ container.available # <<>>
  /\ \E m \in Monitors : container.queued[m] > 0

\* The invariant of a ReaderFailoverResult
well_formed(r) ==
  /\ r.is_connected => (r.connection # None /\ r.new_host # None)
  /\ r.exception # NoException => ~r.is_connected

\* C16: every result returned by failover or get_reader_connection, every
\* result a round produced and every result attempt_connection can return is
\* well formed: connected implies a connection and a host, and a result with an
\* exception is not connected.
C16_ResultInvariant ==
  /\ well_formed(handler.result)
  /\ well_formed(handler.round_result)
  /\ \A i \in DOMAIN handler.topology : \A outcome \in Outcomes :
       well_formed(attempt_connection(handler.topology[i], outcome))

\* failover has returned a connected result, after an attempt that raised a
\* network exception
C16_Witness ==
  /\ handler.pc = "returned"
  /\ handler.op = "failover"
  /\ handler.result.is_connected
  /\ \E k \in DOMAIN handler.batch.order : handler.batch.order[k][2] = "network"

\* C17: in strict-reader mode a connected result of failover is for a host that
\* is a READER in the topology refreshed through its connection, and never for
\* the WRITER of that topology.
C17_StrictReader ==
  (handler.pc = "returned" /\ handler.op = "failover" /\ handler.strict
     /\ handler.result.is_connected)
    => /\ handler.refreshed[handler.result.new_host] = "READER"
       /\ (\E u \in Urls : handler.refreshed[u] = "READER")
            => handler.refreshed[handler.result.new_host] # "WRITER"

\* Strict-reader failover has returned a connection to a host that was the
\* writer of the topology it was given and is a READER after the refresh, next
\* to a WRITER
C17_Witness ==
  /\ handler.pc = "returned" /\ handler.op = "failover" /\ handler.strict
  /\ handler.result.is_connected
  /\ \E i \in DOMAIN handler.topology :
       /\ handler.topology[i].url = handler.result.new_host
       /\ IsWriter(handler.topology[i])
  /\ \E u \in Urls : handler.refreshed[u] = "WRITER"

\* C18: a strict-reader failover that closed the connection of a host that is
\* not a READER, and whose max timeout has not expired, returns only after
\* another round of attempts, with a connected result or an exception.
C18_StrictRetry ==
  (handler.pc = "returned" /\ handler.op = "failover" /\ handler.strict
     /\ handler.closed # {} /\ ~handler.expired)
    => /\ handler.rounds >= 2
       /\ handler.result.is_connected \/ handler.result.exception # NoException

\* The hosts of a list, as a set
Range(list) == {list[i] : i \in DOMAIN list}

\* The sub-list list[a..b]
Slice(list, a, b) == [i \in 1..(b - a + 1) |-> list[a + i - 1]]

\* The list is made of the available readers, the writer when expected, and
\* the unavailable readers of the topology, in that order and without duplicates
priority_order(topology, readers_only, list) ==
  LET readers == {h \in Range(topology) : h.role = "READER"}
      active == {h \in readers : h.availability = "AVAILABLE"}
      down == readers \ active
      writers == {h \in Range(topology) : h.role = "WRITER"}
      na == Cardinality(active)
      nd == Cardinality(down)
      expected == writers # {} /\ (~readers_only \/ readers = {})
      nw == IF expected THEN 1 ELSE 0
  IN /\ Len(list) = na + nw + nd
     /\ \A i, j \in DOMAIN list : i # j => list[i] # list[j]
     /\ Range(Slice(list, 1, na)) = active
     /\ expected => list[na + 1] \in writers
     /\ Range(Slice(list, na + nw + 1, na + nw + nd)) = down
     /\ \A r \in readers : Cardinality({i \in DOMAIN list : list[i] = r}) = 1

\* C19: for every topology and both modes, every list
\* get_hosts_by_priority may return has the available readers first, then the
\* writer, then the unavailable readers, without duplicates, every reader once;
\* the writer is there in non-strict mode whenever there is one, and in
\* strict-reader mode exactly when the topology has no reader.
C19_PriorityList ==
  /\ \A readers_only \in BOOLEAN :
       \A list \in get_hosts_by_priority(handler.topology, readers_only) :
          priority_order(handler.topology, readers_only, list)
  /\ handler.pc = "sorted"
       => priority_order(handler.topology, handler.strict, handler.hosts)

\* In strict-reader mode the list was made for a topology of a writer, an
\* available reader and an unavailable one
C19_Witness ==
  /\ handler.pc = "sorted" /\ handler.strict
  /\ \E i, j, k \in DOMAIN handler.topology :
       /\ IsWriter(handler.topology[i])
       /\ IsActiveReader(handler.topology[j])
       /\ IsDownHost(handler.topology[k])
  /\ Len(handler.hosts) = 2

\* The indices of the pair of hosts that starts at index i of the list
pair_at(i, list) == {j \in {i, i + 1} : j <= Len(list)}

\* The indices of the attempts of the batch that have completed
completed(batch) == {batch.order[k][1] : k \in DOMAIN batch.order}

\* C20: hosts are attempted in consecutive pairs, both attempts of a pair at
\* once; the batch is won by the first attempt to complete that is connected or
\* raised a non-network exception, never by an attempt that raised a network
\* exception, after which the other attempt is still awaited; a pair is started
\* only when the pairs before it had no winner.
C20_BatchRace ==
  /\ handler.pc = "attempts" =>
       /\ handler.i % 2 = 1
       /\ handler.running \cup completed(handler.batch) = pair_at(handler.i, handler.hosts)
       /\ handler.running \cap completed(handler.batch) = {}
       /\ handler.started = 1..(handler.i + Cardinality(pair_at(handler.i, handler.hosts)) - 1)
       /\ handler.batch.winner = 0
       /\ \A k \in DOMAIN handler.batch.order : handler.batch.order[k][2] = "network"
  /\ handler.batch.winner # 0 =>
       LET order == handler.batch.order
           last == order[Len(order)]
       IN /\ last[1] = handler.batch.winner
          /\ last[2] \in {"connected", "error"}
          /\ \A k \in 1..(Len(order) - 1) : order[k][2] = "network"
          /\ handler.started \subseteq 1..(handler.batch.first + 1)
          /\ handler.pc = "round_end" =>
               handler.round_result = attempt_connection(handler.hosts[last[1]], last[2])
  /\ (handler.pc = "batch" /\ handler.i <= Len(handler.hosts)) => handler.batch.winner = 0

\* In the first pair the attempt that completed first raised a network
\* exception, and the other attempt, awaited, connected and won the batch
C20_Witness ==
  /\ handler.pc = "round_end"
  /\ handler.batch.first = 1
  /\ Len(handler.batch.order) = 2
  /\ handler.batch.order[1][2] = "network"
  /\ handler.batch.order[2][2] = "connected"
  /\ handler.batch.winner = handler.batch.order[2][1]
  /\ handler.round_result.is_connected

\* C21: when an attempt of a failover raised an exception that is not a network
\* exception, no further host is attempted and failover, unless its max timeout
\* expired, returns a result that is not connected and carries that exception.
C21_NonNetworkTerminal ==
  (handler.pc = "returned" /\ handler.op = "failover" /\ ~handler.expired
     /\ handler.round_result.exception # NoException)
    => /\ handler.started \subseteq 1..(handler.batch.first + 1)
       /\ ~handler.result.is_connected
       /\ handler.result.exception = handler.round_result.exception

\* C22: when a call has returned, every connection that an attempt opened and
\* that is not the one returned to the caller has been closed.
C22_NoLeakedConnection ==
  handler.pc = "returned" =>
    \A u \in handler.opened :
       \/ handler.result.is_connected /\ handler.result.connection = u
       \/ u \in handler.closed

\* C23: from its call to its return failover takes no more than
\* max_failover_timeout_sec and an epsilon, here a whole second, and a batch has
\* its result no more than timeout_sec after it was submitted.
C23_Deadline ==
  /\ (handler.op = "failover" /\ handler.pc # "idle")
       => now - handler.called <= handler.max_failover_timeout_sec + 1
  /\ handler.pc = "attempts" => now - handler.batch_started <= handler.timeout_sec

\* C28: the cancellation signal handed to force_connect is set only when a
\* batch timeout or the max failover timeout has expired in a call of the
\* handler; the attempts of a batch start with the signal unset otherwise.
C28_SignalOnlyOnTimeout ==
  /\ handler.timeout_event => handler.timed_out
  /\ (handler.pc = "attempts" /\ ~handler.timed_out) => ~handler.timeout_event

\* C24: in a pass of the intake loop, with callers starting and stopping
\* contexts meanwhile, no context is taken from new_contexts a second time
\* unless that dequeue ends the loop (it meets the marker): each context is
\* dequeued at most twice and the loop reaches its idle check; a context the
\* loop took after its active_monitoring_start_time is in active_contexts, not
\* back in new_contexts.
C24_NoSpinning ==
  /\ \A c \in Ctx : loc.taken[c] <= 1
  /\ pc = "new_drain" =>
       \A c \in Ctx : (loc.taken[c] = 1 /\ InQueue(new_contexts, c))
                         => /\ loc.first_added # None
                            /\ ctx[c].is_active => ~grace_over(loc.current_time, ctx[c])

\* The intake loop has put the marker back, its caller has stopped it
\* meanwhile, and another context waits behind it
C24_Witness ==
  /\ pc = "new_drain"
  /\ loc.first_added # None
  /\ ~ctx[loc.first_added].is_active
  /\ Len(new_contexts) = 2
  /\ Head(new_contexts) = loc.first_added
  /\ \A c \in Ctx : loc.taken[c] = 1

\* C25: for each probe every context gets update_host_status at most once,
\* also when stop_monitoring deactivates the first re-enqueued context during
\* the dispatch.
C25_OneUpdatePerProbe ==
  \A c \in Ctx : loc.updated[c] <= 1

\* C26: once stop_monitoring has set a context inactive, the step of the
\* Monitor that next takes it from new_contexts or active_contexts discards
\* it: it is in neither queue afterwards, and no step changes its fields.
C26_LazyStop ==
  [][\A c \in Ctx :
       (ctx[c].created /\ ~ctx[c].is_active) =>
          /\ (DrainNew /\ new_contexts # <<>> /\ Head(new_contexts) = c)
                => (~InQueue(new_contexts', c) /\ ~InQueue(active_contexts', c))
          /\ (Dispatch /\ active_contexts # <<>> /\ Head(active_contexts) = c)
                => ~InQueue(active_contexts', c)
          /\ ctx'[c] = ctx[c]]_vars

\* C29: start_monitoring, through the cache of the service or through
\* get_or_create_monitor, puts no context in the queue of a Monitor whose
\* loop has exited, and no alias of the registry maps to a Monitor whose
\* is_stopped is set.
C29_StoppedNeverHandedOut ==
  \A m \in Monitors :
     /\ container.mstate[m] \in {"finally", "stopped"} => container.queued[m] = 0
     /\ container.mstate[m] = "stopped"
          => \A a \in Aliases : container.monitor_map[a] # m

\* C30: the step of the idle check that disposes of the Monitor (notify_unused
\* and break) is not taken while a context that is active waits in
\* new_contexts.
C30_NoDisposalWhileWaiting ==
  [][(IdleCheck /\ pc' = "exited")
       => \A i \in DOMAIN new_contexts : ~ctx[new_contexts[i]].is_active]_vars

\* C27: the run of a Monitor never ends with an exception it did not catch,
\* also when it notifies a MonitorService that has released its resources.
C27_NoUncaughtError ==
  container.uncaught = {}

\* C31: the Monitor that a context was submitted to probes the host of the
\* context: its host_info and the host of the call have an alias in common.
C31_OwnHost ==
  \A t \in Services :
     LET call == container.call[t]
     IN (call.pc = "done" /\ ~call.raised)
          => container.host_info[call.monitor] \cap call.host # {}

\* C32: once stop_monitoring has set a context inactive, abort_connection is
\* not called on its connection any more and its is_host_unavailable does not
\* change.
C32_FinalAfterStop ==
  [][\A c \in Ctx :
       (ctx[c].created /\ ~ctx[c].is_active)
         => /\ abort_calls'[c] = abort_calls[c]
            /\ ctx'[c].is_host_unavailable = ctx[c].is_host_unavailable]_vars

====
